---- MODULE Spec2Model ----
(***************************************************************************)
(* A model of the English word frequency analyzer:                         *)
(*   analyzer/counter.py         WordCounter                               *)
(*   analyzer/text_processor.py  TextProcessor                             *)
(*   analyzer/file_loader.py     FileLoader                                *)
(*   main.py                     WorkerThread, MainWindow                  *)
(*                                                                         *)
(* Characters are one-element strings, a word or a text is a sequence of   *)
(* characters.  A Python Counter / dict is the sequence of its             *)
(* (key, value) items in insertion order.                                  *)
(***************************************************************************)
EXTENDS Integers, Sequences, FiniteSets, TLC

VARIABLES
    word_counts,    \* WordCounter.word_counts of each counter object
    total_words,    \* WordCounter.total_words of each counter object
    last,           \* the last call: operation, arguments, result
    stopwords_set,  \* TextProcessor.stopwords_set
    input_text,     \* the text under analysis (the content of the loaded files)
    window,         \* the fields and widgets of the MainWindow
    workers,        \* the WorkerThread objects created so far, in order
    events,         \* the signals emitted and not yet delivered to the GUI thread
    dir_exists,     \* the file system: the directory "docs" exists
    dir_files,      \* the file system: the entries of the directory, in glob order
    loaded_files,   \* FileLoader.loaded_files
    csv_file,       \* the file system: the rows of the exported CSV file
    pos_filter,     \* the POSFilter object: enabled, allowed_pos_tags
    counter_b,      \* a second WordCounter object: word_counts, total_words
    returned_tags   \* the sets get_allowed_pos_tags has handed to its callers

counter_vars == <<word_counts, total_words>>
text_vars == <<stopwords_set, input_text>>
gui_vars == <<window, workers, events, dir_exists>>
lib_vars == <<dir_files, loaded_files, csv_file, pos_filter, counter_b,
              returned_tags>>
vars == <<word_counts, total_words, last, stopwords_set, input_text,
          window, workers, events, dir_exists,
          dir_files, loaded_files, csv_file, pos_filter, counter_b, returned_tags>>

(***************************************************************************)
(* Bounds of the model.                                                    *)
(***************************************************************************)
\* most entries of a directory
MaxFiles == 2
\* most keys, and largest count, of the tables whose statistics are taken
MaxStatKeys == 7
MaxStatCount == 23
\* longest word list handed to filter_by_pos
MaxPosWords == 2
\* most keys of an exported table
MaxKeys == 3
\* most writes a failing device still takes
MaxBudget == 2
\* longest token list handed to count_words
MaxLen == 3
\* merge_counts is not taken beyond this total (counts grow without bound)
MaxTotal == 6
\* largest n of get_most_common, largest frequency bound of filter_by_frequency
MaxN == 3
\* longest token list another counter, merged into this one, was built from
MaxOther == 2
\* longest text handed to the TextProcessor
MaxTextLen == 4
\* number of analysis runs started
MaxRuns == 2

Min(x, y) == IF x <= y THEN x ELSE y

(***************************************************************************)
(* Characters and str.lower()                                              *)
(***************************************************************************)
\* "U+00C9" is E-acute and "U+00E9" e-acute, letters outside a-z, A-Z;
\* "U+0130" is the dotted capital I, whose lower case is two characters:
\* "i" and the combining dot "U+0307"
LowerLetters == {"i", "s"}
UpperLetters == {"I", "S"}
Chars == LowerLetters \cup UpperLetters
            \cup {" ", "\n", ".", "U+00C9", "U+00E9", "U+0130", "U+0307"}

\* str.lower() of one character: a string of one or two characters
LowerChar(c) ==
    CASE c = "I" -> <<"i">>
      [] c = "S" -> <<"s">>
      [] c = "U+00C9" -> <<"U+00E9">>
      [] c = "U+0130" -> <<"i", "U+0307">>
      [] OTHER -> <<c>>

\* str.lower(): character by character (counter.py:58, text_processor.py:80,127)
RECURSIVE Lower(_)
Lower(w) ==
    IF w = <<>> THEN <<>>
    ELSE Lower(SubSeq(w, 1, Len(w) - 1)) \o LowerChar(w[Len(w)])

(***************************************************************************)
(* collections.Counter as a sequence of <<word, count>> items              *)
(***************************************************************************)
Keys(t) == {t[i][1] : i \in DOMAIN t}

\* position of key w in the items of t (0 when absent)
IndexOf(t, w) ==
    IF w \in Keys(t) THEN CHOOSE i \in DOMAIN t : t[i][1] = w ELSE 0

\* dict.get(w, 0)
Get(t, w) == IF w \in Keys(t) THEN t[IndexOf(t, w)][2] ELSE 0

\* self[w] = v : an existing key keeps its place, a new key is appended
SetItem(t, w, v) ==
    IF w \in Keys(t)
    THEN [t EXCEPT ![IndexOf(t, w)] = <<w, v>>]
    ELSE Append(t, <<w, v>>)

\* Counter(words): self[elem] = self.get(elem, 0) + 1 for each elem in order
RECURSIVE CounterOf(_)
CounterOf(words) ==
    IF words = <<>> THEN <<>>
    ELSE LET t == CounterOf(SubSeq(words, 1, Len(words) - 1))
             w == words[Len(words)]
         IN  SetItem(t, w, Get(t, w) + 1)

\* sum(counter.values())
RECURSIVE SumCounts(_)
SumCounts(t) ==
    IF t = <<>> THEN 0
    ELSE t[Len(t)][2] + SumCounts(SubSeq(t, 1, Len(t) - 1))

\* max(values), min(values) of a non-empty Counter
MaxCount(t) == CHOOSE m \in {t[i][2] : i \in DOMAIN t} : \A i \in DOMAIN t : t[i][2] <= m
MinCount(t) == CHOOSE m \in {t[i][2] : i \in DOMAIN t} : \A i \in DOMAIN t : m <= t[i][2]

\* Optional[T]: None is the empty set, a value x is {x}
None == {}
Some(x) == {x}

\* sorted(items, key=itemgetter(1), reverse=True): a stable sort, so items of
\* equal count keep their order.  InsertDesc puts x behind every item whose
\* count is >= x's.
\* the sort with items of equal count in reverse order
InsertDescTiesReversed(s, x) ==
    LET k == Cardinality({i \in DOMAIN s : s[i][2] > x[2]})
    IN  SubSeq(s, 1, k) \o <<x>> \o SubSeq(s, k + 1, Len(s))

InsertDesc(s, x) ==
    LET k == Cardinality({i \in DOMAIN s : s[i][2] >= x[2]})
    IN  SubSeq(s, 1, k) \o <<x>> \o SubSeq(s, k + 1, Len(s))

RECURSIVE SortedByCountDesc(_)
SortedByCountDesc(items) ==
    IF items = <<>> THEN <<>>
    ELSE InsertDesc(SortedByCountDesc(SubSeq(items, 1, Len(items) - 1)),
                    items[Len(items)])

\* Counter.most_common(n) for an integer n >= 0:
\* heapq.nlargest(n, items, key=itemgetter(1)) == sorted(items, ...)[:n]
MostCommon(t, n) == SubSeq(SortedByCountDesc(t), 1, Min(n, Len(t)))

\* Counter.update(other) for a mapping `other`.  `alias` says that other is
\* the very object being updated, so each item is read from the live table.
RECURSIVE UpdateFrom(_, _, _, _)
UpdateFrom(t, other, i, alias) ==
    IF i > Len(IF alias THEN t ELSE other) THEN t
    ELSE LET item == IF alias THEN t[i] ELSE other[i]
         IN  UpdateFrom(SetItem(t, item[1], item[2] + Get(t, item[1])),
                        other, i + 1, alias)

CounterUpdate(t, other, alias) ==
    IF t # <<>> THEN UpdateFrom(t, other, 1, alias)
    ELSE other      \* dict.update on an empty Counter copies the items in order

(***************************************************************************)
(* WordCounter (analyzer/counter.py).  Each operation is an operator from  *)
(* the object's fields and the arguments to the new fields and the result. *)
(***************************************************************************)
\* the tokens handed to a WordCounter: "is", "Is", "si"
Tokens == {<<"i", "s">>, <<"I", "s">>, <<"s", "i">>}

RECURSIVE SeqsUpTo(_, _)
SeqsUpTo(S, n) ==
    IF n = 0 THEN {<<>>}
    ELSE LET shorter == SeqsUpTo(S, n - 1)
         IN  shorter \cup {Append(s, x) : s \in shorter, x \in S}

TokenLists == SeqsUpTo(Tokens, MaxLen)

\* WordCounter.__init__
NewCounter == [word_counts |-> <<>>, total_words |-> 0]

\* count_words with total_words taken from the table, not from the list
count_words_total_of_keys(self, words) ==
    IF words = <<>>
    THEN [word_counts |-> self.word_counts, total_words |-> self.total_words,
          ret |-> <<>>]
    ELSE [word_counts |-> CounterOf(words), total_words |-> Len(CounterOf(words)),
          ret |-> CounterOf(words)]

\* a count_words that hands out the table of the object for an empty list
count_words_returns_table(self, words) ==
    IF words = <<>>
    THEN [word_counts |-> self.word_counts, total_words |-> self.total_words,
          ret |-> self.word_counts]
    ELSE [word_counts |-> CounterOf(words), total_words |-> Len(words),
          ret |-> CounterOf(words)]

\* WordCounter.count_words
count_words(self, words) ==
    IF words = <<>>
    THEN [word_counts |-> self.word_counts, total_words |-> self.total_words,
          ret |-> <<>>]
    ELSE [word_counts |-> CounterOf(words), total_words |-> Len(words),
          ret |-> CounterOf(words)]

\* WordCounter.get_most_common
get_most_common(self, n) == MostCommon(self.word_counts, n)

\* get_word_frequency without the lower()
get_word_frequency_exact(self, word) == Get(self.word_counts, word)

\* WordCounter.get_word_frequency
get_word_frequency(self, word) == Get(self.word_counts, Lower(word))

\* WordCounter.get_total_unique_words
get_total_unique_words(self) == Len(self.word_counts)

\* WordCounter.get_total_words
get_total_words(self) == self.total_words

\* filter_by_frequency with count > min_freq for count >= min_freq
filter_by_frequency_strict(self, min_freq, max_freq) ==
    LET keep(item) == /\ item[2] > min_freq
                      /\ (max_freq = None \/ \A m \in max_freq : item[2] <= m)
    IN  SelectSeq(self.word_counts, keep)

\* WordCounter.filter_by_frequency
filter_by_frequency(self, min_freq, max_freq) ==
    LET keep(item) == /\ item[2] >= min_freq
                      /\ (max_freq = None \/ \A m \in max_freq : item[2] <= m)
    IN  SelectSeq(self.word_counts, keep)

(***************************************************************************)
(* float: an IEEE 754 double, 0.b1 b2 ... b53 * 2^exp with b1 = 1, the     *)
(* bits kept as a sequence; zero has no bits.  Results are rounded to the  *)
(* nearest double, ties to the even one.                                   *)
(***************************************************************************)
MantissaBits == 53

FloatZero == [bits |-> <<>>, exp |-> 0]

\* bits plus one unit in the last place, and the carry out of the first bit
IncBits(bits) ==
    LET zeros == {i \in DOMAIN bits : bits[i] = 0}
    IN  IF zeros = {}
        THEN [bits |-> [i \in DOMAIN bits |-> 0], carry |-> 1]
        ELSE LET z == CHOOSE i \in zeros : \A j \in zeros : j <= i
             IN  [bits |-> [i \in DOMAIN bits |->
                              IF i < z THEN bits[i] ELSE IF i = z THEN 1 ELSE 0],
                  carry |-> 0]

\* the double nearest to 0.bits * 2^exp, for more than MantissaBits bits
RoundBits(bits, exp) ==
    LET kept == SubSeq(bits, 1, MantissaBits)
        guard == bits[MantissaBits + 1]
        sticky == \E i \in (MantissaBits + 2)..Len(bits) : bits[i] = 1
        up == guard = 1 /\ (sticky \/ kept[MantissaBits] = 1)
        r == IncBits(kept)
    IN  IF Len(bits) = MantissaBits THEN [bits |-> bits, exp |-> exp]
        ELSE IF ~up THEN [bits |-> kept, exp |-> exp]
        ELSE IF r.carry = 1
        THEN [bits |-> <<1>> \o SubSeq(r.bits, 1, MantissaBits - 1), exp |-> exp + 1]
        ELSE [bits |-> r.bits, exp |-> exp]

\* a / b as a' / b' * 2^e with 1/2 <= a' / b' < 1
RECURSIVE Normalize(_, _, _)
Normalize(a, b, e) ==
    IF a >= b THEN Normalize(a, 2 * b, e + 1)
    ELSE IF 2 * a < b THEN Normalize(2 * a, b, e - 1)
    ELSE [a |-> a, b |-> b, e |-> e]

\* the bits of v, a number below 2^width, and the number of given bits
ToBits(v, width) == [i \in 1..width |-> (v \div 2^(width - i)) % 2]

RECURSIVE BitsValue(_)
BitsValue(bits) ==
    IF bits = <<>> THEN 0
    ELSE 2 * BitsValue(SubSeq(bits, 1, Len(bits) - 1)) + bits[Len(bits)]

\* bits produced or consumed by one step of a division or multiplication
DigitBits == 4

\* the first k * DigitBits bits of r / b (r < b), then one bit that says
\* whether the rest is not zero
RECURSIVE DivBits(_, _, _)
DivBits(r, b, k) ==
    IF k = 0 THEN <<IF r > 0 THEN 1 ELSE 0>>
    ELSE LET scaled == (2^DigitBits) * r
         IN  ToBits(scaled \div b, DigitBits) \o DivBits(scaled % b, b, k - 1)

\* s / n for int s >= 0 and n > 0
FloatDiv(s, n) ==
    IF s = 0 THEN FloatZero
    ELSE LET q == Normalize(s, n, 0)
         IN  RoundBits(DivBits(q.a, q.b, MantissaBits \div DigitBits + 1), q.e)

\* float(s)
FloatOfInt(s) == FloatDiv(s, 1)

RECURSIVE BinaryOf(_)
BinaryOf(c) == IF c = 0 THEN <<>> ELSE BinaryOf(c \div 2) \o <<c % 2>>

\* the bits of (bits as an integer) * n + carry, DigitBits bits at a time
\* from the last one
RECURSIVE MulBits(_, _, _)
MulBits(bits, n, carry) ==
    IF bits = <<>> THEN BinaryOf(carry)
    ELSE LET k == Len(bits)
             width == Min(DigitBits, k)
             t == BitsValue(SubSeq(bits, k - width + 1, k)) * n + carry
         IN  MulBits(SubSeq(bits, 1, k - width), n, t \div (2^width))
                \o ToBits(t % (2^width), width)

\* f * n for a float f and int n >= 0
FloatMulInt(f, n) ==
    IF f = FloatZero \/ n = 0 THEN FloatZero
    ELSE LET product == MulBits(f.bits, n, 0)
         IN  RoundBits(product, f.exp + Len(product) - Len(f.bits))

\* WordCounter.get_words_by_length; max_length is None or Some(n)
get_words_by_length(self, min_length, max_length) ==
    LET keep(item) == /\ Len(item[1]) >= min_length
                      /\ (max_length = None \/ \A m \in max_length : Len(item[1]) <= m)
    IN  SelectSeq(self.word_counts, keep)

\* a WordCounter whose statistics leave out the least frequent word
get_statistics_min_of_most_common(self) ==
    IF self.word_counts = <<>>
    THEN [total_words |-> 0, unique_words |-> 0,
          avg_frequency |-> FloatZero,
          max_frequency |-> 0, min_frequency |-> 0,
          most_common_word |-> None]
    ELSE [total_words |-> self.total_words,
          unique_words |-> Len(self.word_counts),
          avg_frequency |-> FloatDiv(SumCounts(self.word_counts),
                                     Len(self.word_counts)),
          max_frequency |-> MaxCount(self.word_counts),
          min_frequency |-> MaxCount(self.word_counts),
          most_common_word |-> Some(MostCommon(self.word_counts, 1)[1])]

\* WordCounter.get_statistics
get_statistics(self) ==
    IF self.word_counts = <<>>
    THEN [total_words |-> 0, unique_words |-> 0,
          avg_frequency |-> FloatZero,
          max_frequency |-> 0, min_frequency |-> 0,
          most_common_word |-> None]
    ELSE LET most_common == MostCommon(self.word_counts, 1)
         IN  [total_words |-> self.total_words,
              unique_words |-> Len(self.word_counts),
              avg_frequency |-> FloatDiv(SumCounts(self.word_counts),
                                         Len(self.word_counts)),
              max_frequency |-> MaxCount(self.word_counts),
              min_frequency |-> MinCount(self.word_counts),
              most_common_word |-> IF most_common # <<>>
                                   THEN Some(most_common[1]) ELSE None]

\* WordCounter.to_dict
to_dict(self) == self.word_counts

\* merge_counts without the update of total_words
merge_counts_keeps_total(self, other_counter, alias) ==
    IF other_counter.word_counts # <<>>
    THEN [word_counts |-> CounterUpdate(self.word_counts,
                                        other_counter.word_counts, alias),
          total_words |-> self.total_words]
    ELSE [word_counts |-> self.word_counts, total_words |-> self.total_words]

\* WordCounter.merge_counts; alias: other_counter is self
merge_counts(self, other_counter, alias) ==
    IF other_counter.word_counts # <<>>
    THEN [word_counts |-> CounterUpdate(self.word_counts,
                                        other_counter.word_counts, alias),
          total_words |-> self.total_words + other_counter.total_words]
    ELSE [word_counts |-> self.word_counts, total_words |-> self.total_words]

\* a clear that empties the table and keeps the total
clear_keeps_total(self) == [word_counts |-> <<>>, total_words |-> self.total_words]

\* WordCounter.clear
clear(self) == [word_counts |-> <<>>, total_words |-> 0]

(***************************************************************************)
(* TextProcessor (analyzer/text_processor.py)                              *)
(***************************************************************************)
\* the regular expression classes [a-zA-Z] and \s, and str.isalpha()
IsAsciiLetter(c) == c \in LowerLetters \cup UpperLetters
IsSpace(c) == c \in {" ", "\n"}
IsAlphaChar(c) == c \in LowerLetters \cup UpperLetters \cup {"U+00C9", "U+00E9", "U+0130"}
IsAlpha(token) == token # <<>> /\ \A i \in DOMAIN token : IsAlphaChar(token[i])

\* re.sub(r'[^a-zA-Z\s]', ' ', text)
ReplaceNonLetters(text) ==
    [i \in DOMAIN text |->
        IF IsAsciiLetter(text[i]) \/ IsSpace(text[i]) THEN text[i] ELSE " "]

\* str.split(): the maximal runs of characters that are not whitespace
RECURSIVE SplitFrom(_, _, _)
SplitFrom(text, i, word) ==
    IF i > Len(text) THEN (IF word = <<>> THEN <<>> ELSE <<word>>)
    ELSE IF IsSpace(text[i])
         THEN (IF word = <<>> THEN <<>> ELSE <<word>>) \o SplitFrom(text, i + 1, <<>>)
         ELSE SplitFrom(text, i + 1, Append(word, text[i]))

Split(text) == SplitFrom(text, 1, <<>>)

\* ' '.join(words)
RECURSIVE Join(_)
Join(words) ==
    IF words = <<>> THEN <<>>
    ELSE IF Len(words) = 1 THEN words[1]
    ELSE words[1] \o <<" ">> \o Join(Tail(words))

\* re.sub(r'\s+', ' ', text).strip(): every run of whitespace becomes one
\* space, and the spaces at both ends go
CollapseSpaces(text) == Join(Split(text))

\* clean_text without the lower()
clean_text_no_lower(text) ==
    IF text = <<>> THEN <<>>
    ELSE CollapseSpaces(ReplaceNonLetters(text))

\* TextProcessor.clean_text
clean_text(text) ==
    IF text = <<>> THEN <<>>
    ELSE CollapseSpaces(ReplaceNonLetters(Lower(text)))

\* TextProcessor.tokenize: the set of token lists it can return.  On a text
\* of letters and single spaces nltk's word_tokenize splits at the spaces and
\* breaks a contraction ("cannot", "gonna") in two; text.split(), taken when
\* word_tokenize raises, splits at the spaces.
tokenize(text) ==
    IF text = <<>> THEN {<<>>}
    ELSE LET tokens == Split(text)
             broken(k, j) ==
                 SubSeq(tokens, 1, k - 1)
                     \o <<SubSeq(tokens[k], 1, j), SubSeq(tokens[k], j + 1, Len(tokens[k]))>>
                     \o SubSeq(tokens, k + 1, Len(tokens))
         IN  {tokens} \cup
             {broken(p[1], p[2]) :
                 p \in {q \in (DOMAIN tokens) \X (1..MaxTextLen) : q[2] < Len(tokens[q[1]])}}

\* TextProcessor.remove_stopwords
remove_stopwords(stopwords, tokens) ==
    IF tokens = <<>> THEN <<>>
    ELSE LET keep(token) == /\ Lower(token) \notin stopwords
                            /\ Len(token) >= 2
                            /\ IsAlpha(token)
         IN  SelectSeq(tokens, keep)

\* TextProcessor.process_text: the set of results, one for each tokenization
process_text(stopwords, text) ==
    {remove_stopwords(stopwords, tokens) : tokens \in tokenize(clean_text(text))}

\* str.strip() of a word
RECURSIVE Strip(_)
Strip(w) ==
    IF w = <<>> THEN w
    ELSE IF IsSpace(w[1]) THEN Strip(Tail(w))
    ELSE IF IsSpace(w[Len(w)]) THEN Strip(SubSeq(w, 1, Len(w) - 1))
    ELSE w

\* the words of stopwords.words('english') over the letters of the model
EnglishStopwords == {<<"i">>, <<"s">>, <<"i", "s">>}

\* the word a client adds as a custom stopword: " sI"
CustomStopwords == {<<" ", "s", "I">>}

\* the texts handed to the TextProcessor
TextChars == {"i", "s", "I", " ", "\n", ".", "U+0130"}
Texts == SeqsUpTo(TextChars, MaxTextLen)

(***************************************************************************)
(* MainWindow and WorkerThread (main.py): the state after construction     *)
(***************************************************************************)
\* QProgressBar(): no value set yet
ProgressBarReset == -1

\* MainWindow.update_result_table shows at most this many rows
MaxRows == 100

\* a control panel whose export, chart and word-cloud buttons start enabled
NewWindowButtonsEnabled ==
    [word_counts |-> <<>>, statistics |-> <<>>,
     directory_input |-> "",
     analyze_button |-> TRUE, export_button |-> TRUE,
     plot_button |-> TRUE, wordcloud_button |-> TRUE,
     progress_bar |-> ProgressBarReset,
     status_bar |-> "ready",
     result_table |-> <<>>, stats_text |-> <<>>]

\* MainWindow.__init__, init_ui, create_control_panel.  The status bar holds
\* the message last shown: "ready" is the initial message.
NewWindow ==
    [word_counts |-> <<>>, statistics |-> <<>>,
     directory_input |-> "",
     analyze_button |-> TRUE, export_button |-> FALSE,
     plot_button |-> FALSE, wordcloud_button |-> FALSE,
     progress_bar |-> ProgressBarReset,
     status_bar |-> "ready",
     result_table |-> <<>>, stats_text |-> <<>>]

\* the application before any analysis was started
InitGui ==
    /\ window = NewWindow
    /\ workers = <<>>
    /\ events = <<>>
    /\ dir_exists = TRUE

\* FileLoader.__init__: loaded_files = {}
NewLoader == <<>>

\* POSFilter.__init__(enabled=False)
NewPosFilter == [enabled |-> FALSE, allowed_pos_tags |-> {}]

\* the objects of the library modules after construction; an empty directory
\* and no exported file
InitLib ==
    /\ dir_files = <<>>
    /\ loaded_files = NewLoader
    /\ csv_file = None
    /\ pos_filter = NewPosFilter
    /\ counter_b = NewCounter
    /\ returned_tags = <<>>

(***************************************************************************)
(* The WordCounter state machine: one counter object and the calls a       *)
(* client can make on it.  `last` records the call just made; the state    *)
(* before the call is the unprimed state of the step.                      *)
(***************************************************************************)
\* the fields of the counter object
Self == [word_counts |-> word_counts, total_words |-> total_words]

\* a counter as count_words leaves a new WordCounter
Built(words) ==
    LET r == count_words(NewCounter, words)
    IN  [word_counts |-> r.word_counts, total_words |-> r.total_words]

\* The other counters merge_counts is called with.  A counter holds a table
\* of positive counts and their sum, whatever calls led to it, and every such
\* state is the one count_words gives for a suitable token list.
OtherCounters == {Built(words) : words \in SeqsUpTo(Tokens, MaxOther)}

NoCall == [op |-> "init", args |-> <<>>, ret |-> <<>>]

\* a call that reads the object and changes nothing
Query(op, args, ret) ==
    /\ last' = [op |-> op, args |-> args, ret |-> ret]
    /\ UNCHANGED <<counter_vars, text_vars, lib_vars, gui_vars>>

\* a call that leaves the object with the fields of `new`
Update(op, args, new, ret) ==
    /\ word_counts' = new.word_counts
    /\ total_words' = new.total_words
    /\ last' = [op |-> op, args |-> args, ret |-> ret]
    /\ UNCHANGED <<text_vars, lib_vars, gui_vars>>

CountWords(words) ==
    LET r == count_words(Self, words)
    IN  Update("count_words", [words |-> words], r, r.ret)

\* a.merge_counts(b), b another object
MergeCounts(other) ==
    /\ total_words + other.total_words <= MaxTotal
    /\ Update("merge_counts", [other |-> other, alias |-> FALSE],
              merge_counts(Self, other, FALSE), <<>>)

\* a.merge_counts(a)
MergeCountsSelf ==
    /\ total_words + total_words <= MaxTotal
    /\ Update("merge_counts", [other |-> Self, alias |-> TRUE],
              merge_counts(Self, Self, TRUE), <<>>)

Clear == Update("clear", <<>>, clear(Self), <<>>)

GetMostCommon(n) ==
    Query("get_most_common", [n |-> n], get_most_common(Self, n))

GetWordFrequency(word) ==
    Query("get_word_frequency", [word |-> word], get_word_frequency(Self, word))

GetTotalUniqueWords ==
    Query("get_total_unique_words", <<>>, get_total_unique_words(Self))

GetTotalWords ==
    Query("get_total_words", <<>>, get_total_words(Self))

FilterByFrequency(min_freq, max_freq) ==
    Query("filter_by_frequency", [min_freq |-> min_freq, max_freq |-> max_freq],
          filter_by_frequency(Self, min_freq, max_freq))

GetWordsByLength(min_length, max_length) ==
    Query("get_words_by_length", [min_length |-> min_length, max_length |-> max_length],
          get_words_by_length(Self, min_length, max_length))

GetStatistics ==
    Query("get_statistics", <<>>, get_statistics(Self))

\* TextProcessor.process_text on the text under analysis
ProcessText ==
    \E tokens \in process_text(stopwords_set, input_text) :
        /\ last' = [op |-> "process_text", args |-> <<>>, ret |-> tokens]
        /\ UNCHANGED <<counter_vars, text_vars, lib_vars, gui_vars>>

\* TextProcessor.remove_stopwords
RemoveStopwords(tokens) ==
    Query("remove_stopwords", [tokens |-> tokens],
          remove_stopwords(stopwords_set, tokens))

ToDict == Query("to_dict", <<>>, to_dict(Self))

Init ==
    /\ word_counts = NewCounter.word_counts
    /\ total_words = NewCounter.total_words
    /\ last = NoCall
    /\ stopwords_set = EnglishStopwords
    /\ input_text = <<>>
    /\ InitGui
    /\ InitLib

Next ==
    \/ \E words \in TokenLists : CountWords(words)
    \/ \E other \in OtherCounters : MergeCounts(other)
    \/ MergeCountsSelf
    \/ Clear
    \/ \E n \in 0..MaxN : GetMostCommon(n)
    \/ \E word \in Tokens : GetWordFrequency(word)
    \/ GetTotalUniqueWords
    \/ GetTotalWords
    \/ \E min_freq \in 0..MaxN, max_freq \in {None} \cup {Some(m) : m \in 0..MaxN} :
          FilterByFrequency(min_freq, max_freq)
    \/ \E min_length \in 1..MaxN :
          \E max_length \in {None, Some(min_length)} :
              GetWordsByLength(min_length, max_length)
    \/ GetStatistics
    \/ ToDict
    \/ ProcessText
    \/ \E tokens \in SeqsUpTo(Tokens, 1) : RemoveStopwords(tokens)

Spec == Init /\ [][Next]_vars

(***************************************************************************)
(* Text analysis: a TextProcessor, and the analysis of a text as            *)
(* WorkerThread.run does it (main.py:58-65): process_text, then count_words *)
(* on a new WordCounter.                                                    *)
(***************************************************************************)
\* TextProcessor.add_custom_stopwords
add_custom_stopwords(stopwords, words) ==
    stopwords \cup {Strip(Lower(words[i])) : i \in DOMAIN words}

AddCustomStopwords(words) ==
    /\ stopwords_set' = add_custom_stopwords(stopwords_set, words)
    /\ last' = [op |-> "add_custom_stopwords", args |-> [words |-> words], ret |-> <<>>]
    /\ UNCHANGED <<counter_vars, input_text, lib_vars, gui_vars>>

AnalyzeText ==
    \E processed_words \in process_text(stopwords_set, input_text) :
        LET r == count_words(NewCounter, processed_words)
        IN  /\ word_counts' = r.word_counts
            /\ total_words' = r.total_words
            /\ last' = [op |-> "analyze", args |-> <<>>, ret |-> processed_words]
            /\ UNCHANGED <<text_vars, lib_vars, gui_vars>>

\* any text, a new WordCounter, the processor with the English stopwords
InitText ==
    /\ word_counts = NewCounter.word_counts
    /\ total_words = NewCounter.total_words
    /\ last = NoCall
    /\ stopwords_set = EnglishStopwords
    /\ input_text \in Texts
    /\ InitGui
    /\ InitLib

NextText ==
    \/ \E words \in SeqsUpTo(CustomStopwords, 1) : AddCustomStopwords(words)
    \/ ProcessText
    \/ AnalyzeText

SpecText == InitText /\ [][NextText]_vars

(***************************************************************************)
(* FileLoader (analyzer/file_loader.py) as the worker uses it.  A mapping  *)
(* of file names to contents is the sequence of its <<name, content>>      *)
(* items.                                                                  *)
(***************************************************************************)
\* '\n'.join(contents)
RECURSIVE JoinLines(_)
JoinLines(contents) ==
    IF contents = <<>> THEN <<>>
    ELSE IF Len(contents) = 1 THEN contents[1]
    ELSE contents[1] \o <<"\n">> \o JoinLines(Tail(contents))

\* FileLoader.get_all_content
get_all_content(self) ==
    IF self = <<>> THEN <<>>
    ELSE JoinLines([i \in DOMAIN self |-> self[i][2]])

\* FileLoader.get_file_count
get_file_count(self) == Len(self)

\* What load_txt_files can return for the directory "docs": no file, the file
\* a.txt ("sI ss"), a.txt and b.txt ("ss."), or c.txt ("Is", a stopword only)
FileA == <<"a.txt", <<"s", "I", " ", "s", "s">>>>
FileB == <<"b.txt", <<"s", "s", ".">>>>
FileC == <<"c.txt", <<"I", "s">>>>
DirContents == {<<>>, <<FileA>>, <<FileA, FileB>>, <<FileC>>}

(***************************************************************************)
(* WorkerThread.run (main.py:38-80), one action for each step of the       *)
(* pipeline.  A signal emitted by the worker is queued for the GUI thread, *)
(* which delivers the queued signals in order.  The messages are named     *)
(*   "loading" (main.py:42), "no_txt_files" (49), "processing" (55),       *)
(*   "counting" (63), "done" (74), "failed" (80).                          *)
(***************************************************************************)
Progress(value) == [signal |-> "progress_updated", value |-> value]
Status(message) == [signal |-> "status_updated", value |-> message]
Completed(counts, statistics) ==
    [signal |-> "analysis_completed",
     value |-> [word_counts |-> counts, statistics |-> statistics]]

\* an except clause that reports the failure and hands over an empty result
ExceptHandlerCompletes == <<Status("failed"), Completed(<<>>, <<>>)>>

\* except Exception as e: self.status_updated.emit(...)
ExceptHandler == <<Status("failed")>>

\* WorkerThread.__init__; at_start remembers the results the window showed
\* when the worker was created
NewWorker(directory_path, shown) ==
    [directory_path |-> directory_path, pc |-> "start", outcome |-> "running",
     files |-> <<>>, processed_words |-> <<>>,
     word_counter |-> NewCounter, emitted |-> <<>>, at_start |-> shown]

\* worker w goes on with the fields `new` (a record of the fields that
\* change) and emits the signals `signals`
WorkerStep(w, new, signals) ==
    /\ workers' = [workers EXCEPT ![w] =
          [f \in DOMAIN workers[w] |->
              IF f = "emitted" THEN workers[w].emitted \o signals
              ELSE IF f \in DOMAIN new THEN new[f] ELSE workers[w][f]]]
    /\ events' = events \o [i \in DOMAIN signals |->
                               [sender |-> w, signal |-> signals[i].signal,
                                value |-> signals[i].value]]
    /\ UNCHANGED <<counter_vars, text_vars, lib_vars, last, window, dir_exists>>

Failed == [pc |-> "finishing", outcome |-> "failed"]

\* main.py:42-52: load the files
WorkerLoad(w) ==
    /\ workers[w].pc = "start"
    /\ LET begin == <<Status("loading"), Progress(10)>>
       IN  \/ \* load_txt_files raises: the directory is gone, or cannot be read
              /\ WorkerStep(w, Failed, begin \o ExceptHandler)
           \/ /\ dir_exists
              /\ \E files \in DirContents :
                    IF files = <<>>
                    THEN WorkerStep(w, [pc |-> "finishing", outcome |-> "no_files"],
                                    begin \o <<Status("no_txt_files")>>)
                    ELSE WorkerStep(w, [pc |-> "loaded", files |-> files],
                                    begin \o <<Progress(30)>>)

\* main.py:55-60: process the text
WorkerProcess(w) ==
    /\ workers[w].pc = "loaded"
    /\ LET begin == <<Status("processing")>>
       IN  \/ \* TextProcessor() or process_text raises
              WorkerStep(w, Failed, begin \o ExceptHandler)
           \/ \E processed_words \in
                     process_text(EnglishStopwords, get_all_content(workers[w].files)) :
                 WorkerStep(w, [pc |-> "processed", processed_words |-> processed_words],
                            begin \o <<Progress(60)>>)

\* main.py:63-67: count the words with a new WordCounter
WorkerCount(w) ==
    /\ workers[w].pc = "processed"
    /\ LET begin == <<Status("counting")>>
           r == count_words(NewCounter, workers[w].processed_words)
       IN  \/ \* count_words raises
              WorkerStep(w, Failed, begin \o ExceptHandler)
           \/ WorkerStep(w, [pc |-> "counted",
                             word_counter |-> [word_counts |-> r.word_counts,
                                               total_words |-> r.total_words]],
                         begin \o <<Progress(80)>>)

\* statistics = word_counter.get_statistics(); statistics['file_count'] = ...
WorkerStatistics(w) ==
    [stats |-> get_statistics(workers[w].word_counter),
     file_count |-> get_file_count(workers[w].files)]

\* a run that sends its results before it reports the last progress value
WorkerFinishResultsFirst(w) ==
    /\ workers[w].pc = "counted"
    /\ WorkerStep(w, [pc |-> "finishing", outcome |-> "completed"],
                  <<Completed(to_dict(workers[w].word_counter), WorkerStatistics(w)),
                    Progress(100), Status("done")>>)

\* main.py:70-77: the statistics, and the results sent to the window
WorkerFinish(w) ==
    /\ workers[w].pc = "counted"
    /\ WorkerStep(w, [pc |-> "finishing", outcome |-> "completed"],
                  <<Progress(100), Status("done"),
                    Completed(to_dict(workers[w].word_counter), WorkerStatistics(w))>>)

\* run() returns
WorkerReturn(w) ==
    /\ workers[w].pc = "finishing"
    /\ WorkerStep(w, [pc |-> "returned"], <<>>)

(***************************************************************************)
(* MainWindow (main.py:83-370): the handlers, run by the GUI thread        *)
(***************************************************************************)
\* what the user can have in the directory field
DirectoryInputs == {"", "  ", "docs"}

\* str.strip() of the directory field
StripInput(directory) == IF directory = "  " THEN "" ELSE directory

\* an os.path.exists that takes every path for an existing one
PathExistsAlways(directory) == TRUE

\* os.path.exists(directory)
PathExists(directory) == directory = "docs" /\ dir_exists

\* MainWindow.update_result_table: the rows <<rank, word, count>>
update_result_table(w) ==
    IF w.word_counts = <<>> THEN w.result_table
    ELSE LET sorted_items == SortedByCountDesc(w.word_counts)
         IN  [i \in 1..Min(Len(sorted_items), MaxRows) |->
                 <<i, sorted_items[i][1], sorted_items[i][2]>>]

\* MainWindow.update_statistics: the numbers of the text shown
update_statistics(w) ==
    IF w.statistics = <<>> THEN w.stats_text ELSE w.statistics

\* a slot that adds the counts of the run to the table on display
on_analysis_completed_merges(w, counts, statistics) ==
    LET w1 == [w EXCEPT !.word_counts = CounterUpdate(w.word_counts, counts, FALSE),
                        !.statistics = statistics]
        w2 == [w1 EXCEPT !.result_table = update_result_table(w1)]
        w3 == [w2 EXCEPT !.stats_text = update_statistics(w2)]
    IN  [w3 EXCEPT !.analyze_button = TRUE, !.export_button = TRUE,
                   !.plot_button = TRUE, !.wordcloud_button = TRUE]

\* MainWindow.on_analysis_completed
on_analysis_completed(w, counts, statistics) ==
    LET w1 == [w EXCEPT !.word_counts = counts, !.statistics = statistics]
        w2 == [w1 EXCEPT !.result_table = update_result_table(w1)]
        w3 == [w2 EXCEPT !.stats_text = update_statistics(w2)]
    IN  [w3 EXCEPT !.analyze_button = TRUE, !.export_button = TRUE,
                   !.plot_button = TRUE, !.wordcloud_button = TRUE]

\* the GUI thread delivers the oldest queued signal to its slot:
\* progress_bar.setValue, statusBar().showMessage, on_analysis_completed
DeliverSignal ==
    /\ events # <<>>
    /\ LET e == Head(events)
       IN  window' =
             CASE e.signal = "progress_updated" ->
                    [window EXCEPT !.progress_bar = e.value]
               [] e.signal = "status_updated" ->
                    [window EXCEPT !.status_bar = e.value]
               [] e.signal = "analysis_completed" ->
                    on_analysis_completed(window, e.value.word_counts, e.value.statistics)
    /\ events' = Tail(events)
    /\ UNCHANGED <<counter_vars, text_vars, lib_vars, last, workers, dir_exists>>

\* the user edits the directory field, or picks a directory (browse_directory)
SetDirectoryInput(directory) ==
    /\ directory # window.directory_input
    /\ window' = [window EXCEPT !.directory_input = directory]
    /\ UNCHANGED <<counter_vars, text_vars, lib_vars, last, workers, events, dir_exists>>

\* MainWindow.start_analysis, run by a click on the analyze button
StartAnalysis ==
    /\ window.analyze_button
    /\ LET directory == StripInput(window.directory_input)
       IN  IF directory = ""
           THEN /\ last' = [op |-> "start_analysis", args |-> <<>>,
                            ret |-> "warning_no_directory"]
                /\ UNCHANGED <<window, workers>>
           ELSE IF ~PathExists(directory)
           THEN /\ last' = [op |-> "start_analysis", args |-> <<>>,
                            ret |-> "warning_directory_missing"]
                /\ UNCHANGED <<window, workers>>
           ELSE /\ Len(workers) < MaxRuns
                /\ window' = [window EXCEPT !.analyze_button = FALSE,
                                            !.progress_bar = 0]
                /\ workers' = Append(workers,
                      NewWorker(directory, [word_counts |-> window.word_counts,
                                            statistics |-> window.statistics]))
                /\ last' = [op |-> "start_analysis", args |-> <<>>, ret |-> "started"]
    /\ UNCHANGED <<counter_vars, text_vars, lib_vars, events, dir_exists>>

\* the file system: the directory is removed or created
RemoveDirectory ==
    /\ dir_exists
    /\ dir_exists' = FALSE
    /\ UNCHANGED <<counter_vars, text_vars, lib_vars, last, window, workers, events>>

CreateDirectory ==
    /\ ~dir_exists
    /\ dir_exists' = TRUE
    /\ UNCHANGED <<counter_vars, text_vars, lib_vars, last, window, workers, events>>

NextGui ==
    \/ \E directory \in DirectoryInputs : SetDirectoryInput(directory)
    \/ StartAnalysis
    \/ DeliverSignal
    \/ RemoveDirectory
    \/ CreateDirectory
    \/ \E w \in DOMAIN workers : WorkerLoad(w)
    \/ \E w \in DOMAIN workers : WorkerProcess(w)
    \/ \E w \in DOMAIN workers : WorkerCount(w)
    \/ \E w \in DOMAIN workers : WorkerFinish(w)
    \/ \E w \in DOMAIN workers : WorkerReturn(w)

SpecGui == Init /\ [][NextGui]_vars

\* the analyses started in a session in which the signals of a run are traced
MaxTracedRuns == 1

\* the session of SpecGui with that many clicks on the analyze button
NextRun ==
    \/ \E directory \in DirectoryInputs : SetDirectoryInput(directory)
    \/ StartAnalysis /\ Len(workers') <= MaxTracedRuns
    \/ DeliverSignal
    \/ RemoveDirectory
    \/ CreateDirectory
    \/ \E w \in DOMAIN workers : WorkerLoad(w)
    \/ \E w \in DOMAIN workers : WorkerProcess(w)
    \/ \E w \in DOMAIN workers : WorkerCount(w)
    \/ \E w \in DOMAIN workers : WorkerFinish(w)
    \/ \E w \in DOMAIN workers : WorkerReturn(w)

SpecRun == Init /\ [][NextRun]_vars

(***************************************************************************)
(* get_statistics on larger tables: a counter that has counted up to       *)
(* MaxStatKeys distinct words, one of them up to MaxStatCount times and    *)
(* the others once.                                                        *)
(***************************************************************************)
StatWords == <<<<"i">>, <<"s">>, <<"i", "s">>, <<"s", "i">>, <<"i", "i">>,
               <<"s", "s">>, <<"s", "i", "s">>, <<"i", "s", "i">>>>

StatTables ==
    {[i \in 1..n |-> <<StatWords[i], IF i = p THEN c ELSE 1>>] :
        n \in 1..Min(MaxStatKeys, Len(StatWords)),
        p \in 1..Min(MaxStatKeys, Len(StatWords)),
        c \in 1..MaxStatCount}

InitStats ==
    /\ word_counts \in StatTables
    /\ total_words = SumCounts(word_counts)
    /\ last = NoCall
    /\ stopwords_set = EnglishStopwords
    /\ input_text = <<>>
    /\ InitGui
    /\ InitLib

NextStats ==
    \/ GetStatistics
    \/ GetTotalWords
    \/ Clear

SpecStats == InitStats /\ [][NextStats]_vars

(***************************************************************************)
(* The FileLoader.  A directory entry is a record [name, kind]; the kind   *)
(* says what reading the file does: "utf8" decodes as UTF-8, "gbk" does    *)
(* not decode as UTF-8 but decodes as GBK, "binary" decodes as neither,    *)
(* "unreadable" cannot be opened (PermissionError).                        *)
(***************************************************************************)
FileNames == {"a.txt", "b.txt", "n.md"}
FileKinds == {"utf8", "gbk", "binary", "unreadable"}

\* directory_path.glob("*.txt")
IsTxt(name) == name \in {"a.txt", "b.txt"}
Glob(files) == SelectSeq(files, LAMBDA f : IsTxt(f.name))

\* the text of a file, decoded with the encoding it was written in
FileText(name) ==
    CASE name = "a.txt" -> <<"s", "I">>
      [] name = "b.txt" -> <<"s", ".">>
      [] OTHER -> <<"i">>

\* the directories: up to MaxFiles entries with distinct names
Directories ==
    {files \in SeqsUpTo([name : FileNames, kind : FileKinds], MaxFiles) :
        \A i, j \in DOMAIN files : i # j => files[i].name # files[j].name}

FallbackEncoding == "gbk"

\* open(file_path, 'r', encoding=encoding) and file.read()
ReadAttempt(file, encoding) ==
    CASE file.kind = "unreadable" -> "OSError"
      [] file.kind = "utf8" -> "ok"
      [] file.kind = "gbk" ->
            IF encoding = "utf-8" THEN "UnicodeDecodeError" ELSE "ok"
      [] file.kind = "binary" -> "UnicodeDecodeError"

\* a loop body that falls back to GBK after every failure of the first read
LoadFileFallbackAlways(file) ==
    LET first == ReadAttempt(file, "utf-8")
        second == ReadAttempt(file, FallbackEncoding)
        entry == <<file.name, FileText(file.name)>>
    IN  IF first = "ok"
        THEN [attempts |-> <<<<file.name, "utf-8", first>>>>, entry |-> Some(entry)]
        ELSE [attempts |-> <<<<file.name, "utf-8", first>>,
                             <<file.name, FallbackEncoding, second>>>>,
              entry |-> IF second = "ok" THEN Some(entry) ELSE None]

\* the body of the loop of load_txt_files for one file: the read attempts
\* made and the entry added to txt_files, if any
LoadFile(file) ==
    LET first == ReadAttempt(file, "utf-8")
        second == ReadAttempt(file, FallbackEncoding)
        entry == <<file.name, FileText(file.name)>>
    IN  IF first = "ok"
        THEN [attempts |-> <<<<file.name, "utf-8", first>>>>, entry |-> Some(entry)]
        ELSE IF first = "UnicodeDecodeError"
        THEN [attempts |-> <<<<file.name, "utf-8", first>>,
                             <<file.name, FallbackEncoding, second>>>>,
              entry |-> IF second = "ok" THEN Some(entry) ELSE None]
        ELSE [attempts |-> <<<<file.name, "utf-8", first>>>>, entry |-> None]

\* the loop of load_txt_files over the files from index i
RECURSIVE LoadFrom(_, _, _, _)
LoadFrom(files, i, txt_files, attempts) ==
    IF i > Len(files) THEN [txt_files |-> txt_files, attempts |-> attempts]
    ELSE LET r == LoadFile(files[i])
         IN  LoadFrom(files, i + 1,
                      IF r.entry = None THEN txt_files
                      ELSE txt_files \o <<CHOOSE e \in r.entry : TRUE>>,
                      attempts \o r.attempts)

\* a load that forgets the files of the previous load before it looks at
\* the directory
load_txt_files_resets(self, exists, files) ==
    IF ~exists
    THEN [raised |-> Some("FileNotFoundError"), loaded_files |-> NewLoader,
          ret |-> <<>>, attempts |-> <<>>]
    ELSE LET r == LoadFrom(Glob(files), 1, <<>>, <<>>)
         IN  [raised |-> None, loaded_files |-> r.txt_files,
              ret |-> r.txt_files, attempts |-> r.attempts]

\* FileLoader.load_txt_files on a loader whose loaded_files is self: what is
\* raised, the new loaded_files, the mapping returned and the reads attempted
load_txt_files(self, exists, files) ==
    IF ~exists
    THEN [raised |-> Some("FileNotFoundError"), loaded_files |-> self,
          ret |-> <<>>, attempts |-> <<>>]
    ELSE LET r == LoadFrom(Glob(files), 1, <<>>, <<>>)
         IN  [raised |-> None, loaded_files |-> r.txt_files,
              ret |-> r.txt_files, attempts |-> r.attempts]

\* FileLoader.get_file_list
get_file_list(self) == [i \in DOMAIN self |-> self[i][1]]

LoaderUnchanged ==
    UNCHANGED <<counter_vars, text_vars, window, workers, events,
                csv_file, pos_filter, counter_b, returned_tags>>

LoadTxtFiles ==
    LET r == load_txt_files(loaded_files, dir_exists, dir_files)
    IN  /\ loaded_files' = r.loaded_files
        /\ last' = [op |-> "load_txt_files",
                    args |-> [exists |-> dir_exists, files |-> dir_files],
                    ret |-> r]
        /\ UNCHANGED <<dir_exists, dir_files>>
        /\ LoaderUnchanged

LoaderQuery(op, ret) ==
    /\ last' = [op |-> op, args |-> <<>>, ret |-> ret]
    /\ UNCHANGED <<dir_exists, dir_files, loaded_files>>
    /\ LoaderUnchanged

GetFileList == LoaderQuery("get_file_list", get_file_list(loaded_files))
GetFileCount == LoaderQuery("get_file_count", get_file_count(loaded_files))
GetAllContent == LoaderQuery("get_all_content", get_all_content(loaded_files))

\* the file system: an entry of the directory is deleted
DeleteFile(i) ==
    /\ dir_exists
    /\ dir_files' = [j \in 1..(Len(dir_files) - 1) |->
                        IF j < i THEN dir_files[j] ELSE dir_files[j + 1]]
    /\ UNCHANGED <<last, dir_exists, loaded_files>>
    /\ LoaderUnchanged

InitLoader ==
    /\ word_counts = NewCounter.word_counts
    /\ total_words = NewCounter.total_words
    /\ last = NoCall
    /\ stopwords_set = EnglishStopwords
    /\ input_text = <<>>
    /\ InitGui
    /\ dir_files \in Directories
    /\ loaded_files = NewLoader
    /\ csv_file = None
    /\ pos_filter = NewPosFilter
    /\ counter_b = NewCounter
    /\ returned_tags = <<>>

NextLoader ==
    \/ LoadTxtFiles
    \/ GetFileList
    \/ GetFileCount
    \/ GetAllContent
    \/ \E i \in DOMAIN dir_files : DeleteFile(i)
    \/ RemoveDirectory
    \/ CreateDirectory

SpecLoader == InitLoader /\ [][NextLoader]_vars

(***************************************************************************)
(* The CSVExporter.  A CSV file is a record of what was written to it: the *)
(* block of statistics rows, the header row, the data rows.  A write       *)
(* budget says how the device behaves: -1, the file cannot be opened;      *)
(* k >= 0, the write after the k-th one raises; NoFailure, every write     *)
(* succeeds.  One unit is written per writerow, the statistics block       *)
(* counting as one.                                                        *)
(***************************************************************************)
\* the code point of a character (str comparison)
CodePoint(c) ==
    CASE c = "\n" -> 10
      [] c = " " -> 32
      [] c = "." -> 46
      [] c = "I" -> 73
      [] c = "S" -> 83
      [] c = "i" -> 105
      [] c = "s" -> 115
      [] c = "U+00C9" -> 201
      [] c = "U+00E9" -> 233
      [] c = "U+0130" -> 304
      [] c = "U+0307" -> 775

\* a < b for str
RECURSIVE StrLess(_, _)
StrLess(a, b) ==
    IF b = <<>> THEN FALSE
    ELSE IF a = <<>> THEN TRUE
    ELSE IF Head(a) = Head(b) THEN StrLess(Tail(a), Tail(b))
    ELSE CodePoint(Head(a)) < CodePoint(Head(b))

\* sorted(items, key=lambda x: x[0]): insert item into a list sorted by word
RECURSIVE InsertByWord(_, _)
InsertByWord(sorted_items, item) ==
    IF sorted_items = <<>> THEN <<item>>
    ELSE IF StrLess(item[1], Head(sorted_items)[1])
         THEN <<item>> \o sorted_items
         ELSE <<Head(sorted_items)>> \o InsertByWord(Tail(sorted_items), item)

RECURSIVE SortedByWord(_)
SortedByWord(t) ==
    IF t = <<>> THEN <<>>
    ELSE InsertByWord(SortedByWord(SubSeq(t, 1, Len(t) - 1)), t[Len(t)])

\* seq[:n]
SlicePrefix(seq, n) ==
    IF n >= 0 THEN SubSeq(seq, 1, Min(n, Len(seq)))
    ELSE IF Len(seq) + n > 0 THEN SubSeq(seq, 1, Len(seq) + n)
    ELSE <<>>

DefaultHeaders == <<"word", "count">>
\* the header row of export_with_statistics (word, occurrences, frequency %)
StatisticsHeaders == <<"word_zh", "count_zh", "frequency_percent_zh">>

NoFailure == MaxKeys + MaxBudget + 2
Budgets == (-1..MaxBudget) \cup {NoFailure}

\* f"{(count / total_words) * 100:.2f}", in hundredths of a percent
FrequencyPercent(count, total) ==
    IF total > 0 THEN (2 * 10000 * count + total) \div (2 * total) ELSE 0

\* mkdir, open and the writerow calls: whether all of them succeeded, and the
\* file left behind (None when it was not opened)
WriteCsv(statistics, headers, rows, budget) ==
    IF budget < 0 THEN [ok |-> FALSE, file |-> None]
    ELSE LET s == IF statistics = None THEN 0 ELSE 1
             units == s + 1 + Len(rows)
             n == Min(units, budget)
         IN  [ok |-> budget >= units,
              file |-> Some([statistics |-> IF n >= s THEN statistics ELSE None,
                             header |-> IF n >= s + 1 THEN Some(headers) ELSE None,
                             rows |-> IF n > s + 1
                                      THEN SubSeq(rows, 1, n - s - 1)
                                      ELSE <<>>])]

\* a handler that lets the exception through
ExceptReraises(attempt) ==
    [ret |-> attempt.ok,
     raised |-> IF attempt.ok THEN None ELSE Some("OSError"),
     file |-> attempt.file]

\* try: ... return True / except Exception: return False
ExceptReturnsFalse(attempt) ==
    [ret |-> attempt.ok, raised |-> None, file |-> attempt.file]

\* the result of an export that returns False before it opens a file
NothingToExport == [ret |-> FALSE, raised |-> None, file |-> None]

\* CSVExporter.export_word_frequency; headers is None or Some(header row)
export_word_frequency(counts, sort_by_count, headers, budget) ==
    IF counts = <<>> THEN NothingToExport
    ELSE LET sorted_items == IF sort_by_count THEN SortedByCountDesc(counts)
                             ELSE SortedByWord(counts)
             header_row == IF headers = None THEN DefaultHeaders
                           ELSE CHOOSE h \in headers : TRUE
         IN  ExceptReturnsFalse(WriteCsv(None, header_row, sorted_items, budget))

\* an export of the first top_n entries in the order of the dict
export_top_words_unsorted(counts, top_n, budget) ==
    IF counts = <<>> THEN NothingToExport
    ELSE export_word_frequency(SlicePrefix(counts, top_n), TRUE, None, budget)

\* CSVExporter.export_top_words
export_top_words(counts, top_n, budget) ==
    IF counts = <<>> THEN NothingToExport
    ELSE LET sorted_items == SortedByCountDesc(counts)
             top_words == SlicePrefix(sorted_items, top_n)
         IN  export_word_frequency(top_words, TRUE, None, budget)

\* CSVExporter.export_with_statistics; total and unique are None or Some(n)
export_with_statistics(counts, total, unique, budget) ==
    IF counts = <<>> THEN NothingToExport
    ELSE LET total_words_ == IF total = None THEN SumCounts(counts)
                             ELSE CHOOSE n \in total : TRUE
             unique_words == IF unique = None THEN Len(counts)
                             ELSE CHOOSE n \in unique : TRUE
             sorted_items == SortedByCountDesc(counts)
             rows == [i \in DOMAIN sorted_items |->
                        <<sorted_items[i][1], sorted_items[i][2],
                          FrequencyPercent(sorted_items[i][2], total_words_)>>]
         IN  ExceptReturnsFalse(
                 WriteCsv(Some(<<total_words_, unique_words>>),
                          StatisticsHeaders, rows, budget))

\* CSVExporter.export_filtered_words
export_filtered_words(counts, min_frequency, min_length, budget) ==
    IF counts = <<>> THEN NothingToExport
    ELSE LET filtered_words ==
                 SelectSeq(counts, LAMBDA item :
                     item[2] >= min_frequency /\ Len(item[1]) >= min_length)
         IN  IF filtered_words = <<>> THEN NothingToExport
             ELSE export_word_frequency(filtered_words, TRUE, None, budget)

\* the dicts handed to the exporter: up to MaxKeys distinct words
ExportWords == {<<"i">>, <<"I", "s">>, <<"s", "i", "s">>}
ExportCounts == {1, 2}
ExportTables ==
    {t \in SeqsUpTo(ExportWords \X ExportCounts, MaxKeys) : Cardinality(Keys(t)) = Len(t)}

CustomHeaders == <<"term", "frequency">>

\* an export call: the file it opened replaces the file on disk
Export(op, args, r) ==
    /\ csv_file' = IF r.file = None THEN csv_file ELSE r.file
    /\ last' = [op |-> op, args |-> args, ret |-> r]
    /\ UNCHANGED <<counter_vars, text_vars, gui_vars,
                   dir_files, loaded_files, pos_filter, counter_b, returned_tags>>

ExportWordFrequency(sort_by_count, headers, budget) ==
    Export("export_word_frequency",
           [sort_by_count |-> sort_by_count, headers |-> headers, budget |-> budget],
           export_word_frequency(word_counts, sort_by_count, headers, budget))

ExportTopWords(top_n, budget) ==
    Export("export_top_words", [top_n |-> top_n, budget |-> budget],
           export_top_words(word_counts, top_n, budget))

ExportWithStatistics(total, budget) ==
    Export("export_with_statistics", [total |-> total, budget |-> budget],
           export_with_statistics(word_counts, total, None, budget))

ExportFilteredWords(min_frequency, min_length, budget) ==
    Export("export_filtered_words",
           [min_frequency |-> min_frequency, min_length |-> min_length,
            budget |-> budget],
           export_filtered_words(word_counts, min_frequency, min_length, budget))

InitCsv ==
    /\ word_counts \in ExportTables
    /\ total_words = SumCounts(word_counts)
    /\ last = NoCall
    /\ stopwords_set = EnglishStopwords
    /\ input_text = <<>>
    /\ InitGui
    /\ InitLib

NextCsv ==
    \/ \E sort_by_count \in BOOLEAN, headers \in {None, Some(CustomHeaders)},
          budget \in Budgets :
            ExportWordFrequency(sort_by_count, headers, budget)
    \/ \E top_n \in -1..MaxN, budget \in Budgets : ExportTopWords(top_n, budget)
    \/ \E total \in {None, Some(0)}, budget \in Budgets :
            ExportWithStatistics(total, budget)
    \/ \E min_frequency \in 1..2, min_length \in 2..3, budget \in Budgets :
            ExportFilteredWords(min_frequency, min_length, budget)

SpecCsv == InitCsv /\ [][NextCsv]_vars

(***************************************************************************)
(* The POSFilter.  nltk.pos_tag is a library call: it returns one tag per  *)
(* word, in order, or raises (no tagger data); the model draws its result. *)
(***************************************************************************)
\* the tags a caller allows, and the tags the tagger gives
AllowedTags == {"NN", "VB"}
TaggerTags == AllowedTags \cup {"JJ"}

\* the results of nltk.pos_tag(words): None when it raises
Taggings(words) == {None} \cup {Some(tags) : tags \in [DOMAIN words -> TaggerTags]}

\* POSFilter.__init__(enabled)
POSFilter(enabled) == [enabled |-> enabled, allowed_pos_tags |-> {}]

\* POSFilter.set_allowed_pos_tags
set_allowed_pos_tags(self, pos_tags) == [self EXCEPT !.allowed_pos_tags = pos_tags]

\* POSFilter.enable_filter; pos_tags is None or Some(tags)
enable_filter(self, pos_tags) ==
    LET enabled == [self EXCEPT !.enabled = TRUE]
    IN  IF pos_tags = None \/ pos_tags = Some({}) THEN enabled
        ELSE set_allowed_pos_tags(enabled, CHOOSE tags \in pos_tags : TRUE)

\* POSFilter.disable_filter
disable_filter(self) == [enabled |-> FALSE, allowed_pos_tags |-> {}]

\* a filter that gives up the words when the tagger raises
filter_by_pos_drops_on_error(self, words, tagging) ==
    IF ~self.enabled \/ self.allowed_pos_tags = {} THEN words
    ELSE IF words = <<>> \/ tagging = None THEN <<>>
    ELSE LET pos == CHOOSE tags \in tagging : TRUE
             kept == {i \in DOMAIN words : pos[i] \in self.allowed_pos_tags}
             Pick(i) == CHOOSE k \in kept : Cardinality({j \in kept : j < k}) = i - 1
         IN  [i \in 1..Cardinality(kept) |-> words[Pick(i)]]

\* POSFilter.filter_by_pos, with the result of nltk.pos_tag
filter_by_pos(self, words, tagging) ==
    IF ~self.enabled \/ self.allowed_pos_tags = {} THEN words
    ELSE IF words = <<>> THEN <<>>
    ELSE IF tagging = None THEN words
    ELSE LET pos == CHOOSE tags \in tagging : TRUE
             kept == {i \in DOMAIN words : pos[i] \in self.allowed_pos_tags}
             Pick(i) == CHOOSE k \in kept : Cardinality({j \in kept : j < k}) = i - 1
         IN  [i \in 1..Cardinality(kept) |-> words[Pick(i)]]

PosUnchanged ==
    UNCHANGED <<counter_vars, text_vars, gui_vars, dir_files, loaded_files, csv_file,
                counter_b>>

\* the sets handed out by get_allowed_pos_tags that a caller still holds
MaxReturned == 1

\* A set object in the hands of a caller: its elements now, its elements when
\* it was returned, and whether it is the object self.allowed_pos_tags names.

\* a getter that hands out the set of the filter itself
get_allowed_pos_tags_no_copy(self) ==
    [alias |-> TRUE, value |-> self.allowed_pos_tags,
     at_return |-> self.allowed_pos_tags]

\* POSFilter.get_allowed_pos_tags: return self.allowed_pos_tags.copy()
get_allowed_pos_tags(self) ==
    [alias |-> FALSE, value |-> self.allowed_pos_tags,
     at_return |-> self.allowed_pos_tags]

\* self.allowed_pos_tags = set(...): the field names a new set object
Rebound(returned) == [i \in DOMAIN returned |-> [returned[i] EXCEPT !.alias = FALSE]]

\* self.allowed_pos_tags.clear(): the set object is emptied in place
Cleared(returned) ==
    [i \in DOMAIN returned |->
        IF returned[i].alias THEN [returned[i] EXCEPT !.value = {}] ELSE returned[i]]

PosUpdate(op, args, new, returned) ==
    /\ pos_filter' = new
    /\ returned_tags' = returned
    /\ last' = [op |-> op, args |-> args, ret |-> <<>>]
    /\ PosUnchanged

PosQuery(op, args, ret) ==
    /\ last' = [op |-> op, args |-> args, ret |-> ret]
    /\ UNCHANGED <<pos_filter, returned_tags>>
    /\ PosUnchanged

\* POSFilter(enabled) takes the place of the filter in use
Construct(enabled) ==
    PosUpdate("__init__", [enabled |-> enabled], POSFilter(enabled),
              Rebound(returned_tags))

EnableFilter(pos_tags) ==
    PosUpdate("enable_filter", [pos_tags |-> pos_tags],
              enable_filter(pos_filter, pos_tags),
              IF pos_tags = None \/ pos_tags = Some({}) THEN returned_tags
              ELSE Rebound(returned_tags))

DisableFilter ==
    PosUpdate("disable_filter", <<>>, disable_filter(pos_filter),
              Cleared(returned_tags))

SetAllowedPosTags(pos_tags) ==
    PosUpdate("set_allowed_pos_tags", [pos_tags |-> pos_tags],
              set_allowed_pos_tags(pos_filter, pos_tags), Rebound(returned_tags))

FilterByPos(words, tagging) ==
    PosQuery("filter_by_pos", [words |-> words, tagging |-> tagging],
             filter_by_pos(pos_filter, words, tagging))

IsEnabled == PosQuery("is_enabled", <<>>, pos_filter.enabled)

\* the caller reads the set returned and lets go of it
GetAllowedPosTags ==
    PosQuery("get_allowed_pos_tags", <<>>, get_allowed_pos_tags(pos_filter).value)

\* the caller keeps the set returned and lets go of the oldest one it holds
HoldAllowedPosTags ==
    LET r == get_allowed_pos_tags(pos_filter)
        held == IF Len(returned_tags) < MaxReturned THEN returned_tags
                ELSE Tail(returned_tags)
    IN  /\ returned_tags' = Append(held, r)
        /\ last' = [op |-> "get_allowed_pos_tags", args |-> <<>>, ret |-> r.value]
        /\ UNCHANGED pos_filter
        /\ PosUnchanged

NextPos ==
    \/ \E enabled \in BOOLEAN : Construct(enabled)
    \/ \E pos_tags \in {None} \cup {Some(tags) : tags \in SUBSET AllowedTags} :
          EnableFilter(pos_tags)
    \/ DisableFilter
    \/ \E pos_tags \in SUBSET AllowedTags : SetAllowedPosTags(pos_tags)
    \/ \E words \in SeqsUpTo(Tokens, MaxPosWords) :
          \E tagging \in Taggings(words) : FilterByPos(words, tagging)
    \/ IsEnabled
    \/ GetAllowedPosTags

SpecPos == Init /\ [][NextPos]_vars

\* the words of a filter_by_pos call between the calls that set the state
MaxFilterWords == 1

\* a caller that constructs, switches and queries the filter and keeps the
\* sets it is given
NextPosTags ==
    \/ \E enabled \in BOOLEAN : Construct(enabled)
    \/ \E pos_tags \in {None} \cup {Some(tags) : tags \in SUBSET AllowedTags} :
          EnableFilter(pos_tags)
    \/ DisableFilter
    \/ \E pos_tags \in SUBSET AllowedTags : SetAllowedPosTags(pos_tags)
    \/ \E words \in SeqsUpTo(Tokens, MaxFilterWords) :
          \E tagging \in Taggings(words) : FilterByPos(words, tagging)
    \/ HoldAllowedPosTags

SpecPosTags == Init /\ [][NextPosTags]_vars

(***************************************************************************)
(* Two WordCounter objects, a (word_counts, total_words) and b             *)
(* (counter_b), each taking count_words, merge_counts and clear; the       *)
(* argument of merge_counts is the other object or the object itself.      *)
(***************************************************************************)
\* the largest total_words an object reaches
MaxMergeTotal == 5

CounterObjects == {"a", "b"}

\* the fields of the object named
Fields(object) == IF object = "a" THEN Self ELSE counter_b

\* a method call that leaves the object named with the fields of `new`
CounterCall(object, op, new) ==
    /\ new.total_words <= MaxMergeTotal
    /\ IF object = "a"
       THEN /\ word_counts' = new.word_counts
            /\ total_words' = new.total_words
            /\ UNCHANGED counter_b
       ELSE /\ counter_b' = [word_counts |-> new.word_counts,
                                 total_words |-> new.total_words]
            /\ UNCHANGED counter_vars
    /\ last' = [op |-> op, args |-> [object |-> object], ret |-> <<>>]
    /\ UNCHANGED <<text_vars, gui_vars, dir_files, loaded_files, csv_file, pos_filter,
                   returned_tags>>

CountWordsOf(object, words) ==
    CounterCall(object, "count_words", count_words(Fields(object), words))

MergeCountsOf(object, other) ==
    CounterCall(object, "merge_counts",
                merge_counts(Fields(object), Fields(other), object = other))

ClearOf(object) == CounterCall(object, "clear", clear(Fields(object)))

NextCounters ==
    \/ \E object \in CounterObjects : \E words \in SeqsUpTo(Tokens, MaxOther) :
          CountWordsOf(object, words)
    \/ \E object \in CounterObjects : \E other \in CounterObjects :
          MergeCountsOf(object, other)
    \/ \E object \in CounterObjects : ClearOf(object)

SpecCounters == Init /\ [][NextCounters]_vars

(***************************************************************************)
(* CSVExporter.get_export_summary (csv_exporter.py:185-207), called with   *)
(* counter.to_dict(), next to counter.get_statistics()                     *)
(***************************************************************************)
\* max(items, key=lambda x: x[1]) taking the last of the items that share
\* the largest count
LastMaxByCount(items) ==
    items[CHOOSE i \in DOMAIN items :
            /\ \A j \in DOMAIN items : items[j][2] <= items[i][2]
            /\ \A j \in DOMAIN items : j > i => items[j][2] < items[i][2]]

\* max(items, key=lambda x: x[1]): the first of the items that share the
\* largest count, in the order of the dict
MaxByCount(items) ==
    items[CHOOSE i \in DOMAIN items :
            /\ \A j \in DOMAIN items : items[j][2] <= items[i][2]
            /\ \A j \in DOMAIN items : j < i => items[j][2] < items[i][2]]

\* CSVExporter.get_export_summary; the empty dict is <<>>
get_export_summary(counts) ==
    IF counts = <<>> THEN <<>>
    ELSE [total_unique_words |-> Len(counts),
          total_word_count |-> SumCounts(counts),
          max_frequency |-> MaxCount(counts),
          min_frequency |-> MinCount(counts),
          avg_frequency |-> FloatDiv(SumCounts(counts), Len(counts)),
          most_common_word |-> MaxByCount(counts)]

\* summary = exporter.get_export_summary(a.to_dict()); a.get_statistics()
GetExportSummary ==
    /\ last' = [op |-> "get_export_summary", args |-> <<>>,
                ret |-> [summary |-> get_export_summary(to_dict(Self)),
                         statistics |-> get_statistics(Self)]]
    /\ UNCHANGED <<counter_vars, text_vars, gui_vars, lib_vars>>

\* the counter a is summarised; b, filled by count_words, is merged into it
NextSummary ==
    \/ \E object \in CounterObjects : \E words \in SeqsUpTo(Tokens, MaxOther) :
          CountWordsOf(object, words)
    \/ \E other \in CounterObjects : MergeCountsOf("a", other)
    \/ ClearOf("a")
    \/ GetExportSummary

SpecSummary == Init /\ [][NextSummary]_vars

(***************************************************************************)
(* MainWindow.export_csv, show_plots, show_wordcloud (main.py:295-370),    *)
(* run by a click on the export, chart and word-cloud button.  A handler   *)
(* yields the message box it shows ("none" when it shows none), the        *)
(* figures it puts on the screen and the file it leaves behind.            *)
(***************************************************************************)
\* if not self.word_counts: QMessageBox.warning(...); return
WarningNoData == [dialog |-> "warning_no_data", figures |-> <<>>, file |-> None]

\* self.statistics.get(key, 0)
StatisticsGet(statistics, key) ==
    IF statistics = <<>> THEN 0 ELSE statistics.stats[key]

\* MainWindow.export_csv; file_path is None when the file dialog was cancelled
export_csv(w, file_path, budget) ==
    IF w.word_counts = <<>> THEN WarningNoData
    ELSE IF file_path = None
    THEN [dialog |-> "none", figures |-> <<>>, file |-> None]
    ELSE LET success == export_with_statistics(
                            w.word_counts,
                            Some(StatisticsGet(w.statistics, "total_words")),
                            Some(StatisticsGet(w.statistics, "unique_words")),
                            budget)
         IN  [dialog |-> IF success.ret THEN "information_exported"
                         ELSE "warning_export_failed",
              figures |-> <<>>, file |-> success.file]

\* the figures of show_plots in the order they are shown
PlotFigures == <<"bar_chart", "horizontal_bar_chart">>

\* the figure of show_wordcloud
WordcloudFigures == <<"wordcloud">>

\* MainWindow.show_plots; shown is the number of figures on the screen when
\* matplotlib raised, or all of them
show_plots(w, shown) ==
    IF w.word_counts = <<>> THEN WarningNoData
    ELSE [dialog |-> IF shown < Len(PlotFigures) THEN "critical_plot_failed"
                     ELSE "none",
          figures |-> SubSeq(PlotFigures, 1, shown), file |-> None]

\* MainWindow.show_wordcloud
show_wordcloud(w, shown) ==
    IF w.word_counts = <<>> THEN WarningNoData
    ELSE [dialog |-> IF shown < Len(WordcloudFigures)
                     THEN "critical_wordcloud_failed" ELSE "none",
          figures |-> SubSeq(WordcloudFigures, 1, shown), file |-> None]

\* a click: the handler runs in the GUI thread and changes no field of the window
Click(op, r) ==
    /\ csv_file' = IF r.file = None THEN csv_file ELSE r.file
    /\ last' = [op |-> op, args |-> <<>>, ret |-> r]
    /\ UNCHANGED <<counter_vars, text_vars, gui_vars,
                   dir_files, loaded_files, pos_filter, counter_b, returned_tags>>

\* a disabled button takes no click
ExportCsv(file_path, budget) ==
    /\ window.export_button
    /\ Click("export_csv", export_csv(window, file_path, budget))

ShowPlots(shown) ==
    /\ window.plot_button
    /\ Click("show_plots", show_plots(window, shown))

ShowWordcloud(shown) ==
    /\ window.wordcloud_button
    /\ Click("show_wordcloud", show_wordcloud(window, shown))

\* the paths the file dialog returns, and how far the writing gets
SavePaths == {None, Some("word_frequency.csv")}
ClickBudgets == {1, NoFailure}

\* the analyses started in a session with clicks on the three buttons
MaxClickRuns == 1

\* the directory stays in place and the user enters its path
NextButtons ==
    \/ SetDirectoryInput("docs")
    \/ StartAnalysis /\ Len(workers') <= MaxClickRuns
    \/ DeliverSignal
    \/ \E w \in DOMAIN workers : WorkerLoad(w)
    \/ \E w \in DOMAIN workers : WorkerProcess(w)
    \/ \E w \in DOMAIN workers : WorkerCount(w)
    \/ \E w \in DOMAIN workers : WorkerFinish(w)
    \/ \E w \in DOMAIN workers : WorkerReturn(w)
    \/ \E file_path \in SavePaths : \E budget \in ClickBudgets :
          ExportCsv(file_path, budget)
    \/ \E shown \in 0..Len(PlotFigures) : ShowPlots(shown)
    \/ \E shown \in 0..Len(WordcloudFigures) : ShowWordcloud(shown)

SpecButtons == Init /\ [][NextButtons]_vars

(***************************************************************************)
(* Properties of the WordCounter                                           *)
(***************************************************************************)
\* number of occurrences of w in the list words
Occurrences(words, w) == Cardinality({i \in DOMAIN words : words[i] = w})

Range(s) == {s[i] : i \in DOMAIN s}

\* a table is a mapping: no key occurs twice
NoDuplicateKeys(t) == \A i, j \in DOMAIN t : t[i][1] = t[j][1] => i = j

\* C1: count_words(words) on a newly created WordCounter leaves a table that
\* maps each word to its number of occurrences in words (and holds no other
\* key), so the counts sum to len(words), and get_total_words() is len(words).
C1_CountOnNewCounter ==
    [][(last'.op = "count_words" /\ Self = NewCounter) =>
        LET words == last'.args.words
        IN  /\ NoDuplicateKeys(word_counts')
            /\ Keys(word_counts') = Range(words)
            /\ \A w \in Tokens : Get(word_counts', w) = Occurrences(words, w)
            /\ SumCounts(word_counts') = Len(words)
            /\ get_total_words(Self') = Len(words)]_vars

\* a new counter has counted a list with a repeated word and a second word
C1_Witness ==
    /\ last.op = "count_words"
    /\ Len(last.args.words) = 3
    /\ Len(word_counts) = 2
    /\ total_words = 3

\* C2: after count_words(words), from any state and for any list, the empty
\* one included, the table and total_words are those of a new counter built
\* from words alone.
C2_CountWordsReplaces ==
    last.op = "count_words" => Self = Built(last.args.words)

\* C3: get_most_common(n) is the first min(n, number of keys) items of the
\* table in the order "higher count first, equal counts in insertion order".
Before(t, x, y) ==
    \/ x[2] > y[2]
    \/ x[2] = y[2] /\ IndexOf(t, x[1]) < IndexOf(t, y[1])

C3_MostCommonSorted ==
    last.op = "get_most_common" =>
        LET r == last.ret
            t == word_counts
        IN  /\ Len(r) = Min(last.args.n, Cardinality(Keys(t)))
            /\ \A i \in DOMAIN r : r[i] \in Range(t)
            /\ \A i, j \in DOMAIN r : i < j => r[i][2] >= r[j][2]
            /\ \A i, j \in DOMAIN r : i < j => Before(t, r[i], r[j])
            /\ \A x \in Range(r), y \in Range(t) \ Range(r) : Before(t, x, y)

\* a cut through a tie: a later, more frequent word comes first and of the two
\* words of equal count the earlier one is returned
C3_Witness ==
    /\ last.op = "get_most_common"
    /\ last.args.n = 2
    /\ Len(word_counts) = 3
    /\ word_counts[1][2] = 1 /\ word_counts[2][2] = 1 /\ word_counts[3][2] = 2
    /\ last.ret = <<word_counts[3], word_counts[1]>>

\* C4: a.merge_counts(b) adds to every count of a the count of the word in b,
\* and to a.total_words the total of b; for disjoint key sets the resulting
\* items are the items of a followed by the items of b.
C4_MergeSums ==
    [][last'.op = "merge_counts" =>
        LET other == last'.args.other
        IN  /\ NoDuplicateKeys(word_counts')
            /\ Keys(word_counts') = Keys(word_counts) \cup Keys(other.word_counts)
            /\ \A w \in Tokens :
                  Get(word_counts', w) = Get(word_counts, w) + Get(other.word_counts, w)
            /\ total_words' = total_words + other.total_words
            /\ Keys(word_counts) \cap Keys(other.word_counts) = {} =>
                  Range(word_counts') = Range(word_counts) \cup Range(other.word_counts)]_vars

\* a merge of another counter that added to a count above 1 and appended a key
C4_Witness ==
    /\ last.op = "merge_counts"
    /\ ~last.args.alias
    /\ \E w \in Keys(last.args.other.word_counts) :
          Get(word_counts, w) > Get(last.args.other.word_counts, w)
    /\ \E w \in Keys(last.args.other.word_counts) :
          /\ Get(word_counts, w) = Get(last.args.other.word_counts, w)
          /\ IndexOf(word_counts, w) = Len(word_counts)
    /\ total_words >= 4

\* C5: filter_by_frequency(min_freq, max_freq) is exactly the items of the
\* table with min_freq <= count, and count <= max_freq when max_freq is given.
C5_FilterExact ==
    last.op = "filter_by_frequency" =>
        LET r == last.ret
            k == last.args.min_freq
            m == last.args.max_freq
            InRange(count) == count >= k /\ \A x \in m : count <= x
        IN  /\ NoDuplicateKeys(r)
            /\ Keys(r) = {w \in Keys(word_counts) : InRange(Get(word_counts, w))}
            /\ \A w \in Keys(r) : Get(r, w) = Get(word_counts, w)
            /\ (\E x \in m : k > x) => r = <<>>

\* a filter with both bounds that keeps one word and drops one on each side
C5_Witness ==
    /\ last.op = "filter_by_frequency"
    /\ last.args.min_freq = 2 /\ last.args.max_freq = Some(2)
    /\ Len(last.ret) = 1
    /\ \E w \in Keys(word_counts) : Get(word_counts, w) = 1
    /\ \E w \in Keys(word_counts) : Get(word_counts, w) = 3

\* C6 as stated: get_word_frequency(w) is the count stored for w when w is a
\* key of the table, and 0 when w is not a key.
C6_LookupByKey ==
    last.op = "get_word_frequency" =>
        LET w == last.args.word
        IN  /\ w \in Keys(word_counts) => last.ret = word_counts[IndexOf(word_counts, w)][2]
            /\ w \notin Keys(word_counts) => last.ret = 0

\* C6 amended: get_word_frequency(w) is the count stored for w.lower() when
\* w.lower() is a key of the table, and 0 when it is not.
C6_LookupByLowerKey ==
    last.op = "get_word_frequency" =>
        LET lw == Lower(last.args.word)
        IN  /\ lw \in Keys(word_counts) => last.ret = word_counts[IndexOf(word_counts, lw)][2]
            /\ lw \notin Keys(word_counts) => last.ret = 0

\* a lookup of "Is" in a table that holds "Is" and "is" with different counts
C6_Witness ==
    /\ last.op = "get_word_frequency"
    /\ last.args.word = <<"I", "s">>
    /\ Get(word_counts, <<"I", "s">>) = 1
    /\ Get(word_counts, <<"i", "s">>) = 2
    /\ last.ret = 2

\* C7: get_total_unique_words() and get_statistics()['unique_words'] are the
\* number of distinct keys of the table, which after count_words(words) is the
\* number of distinct tokens of words.
C7_UniqueWords ==
    /\ last.op = "get_total_unique_words" => last.ret = Cardinality(Keys(word_counts))
    /\ last.op = "get_statistics" => last.ret.unique_words = Cardinality(Keys(word_counts))
    /\ last.op = "count_words" =>
          get_total_unique_words(Self) = Cardinality(Range(last.args.words))

(***************************************************************************)
(* Properties of the text analysis                                         *)
(***************************************************************************)
\* C8: every key of the table of an analysis run is a lowercase, purely
\* alphabetic string of length >= 2 that is not a stopword, and no two keys
\* differ only in letter case.
C8_KeysNormalized ==
    last.op = "analyze" =>
        /\ \A k \in Keys(word_counts) :
              /\ \A i \in DOMAIN k : k[i] \in LowerLetters
              /\ Len(k) >= 2
              /\ k \notin stopwords_set
        /\ \A k1, k2 \in Keys(word_counts) : Lower(k1) = Lower(k2) => k1 = k2

\* a text with a capital letter was analyzed and its word is a key
C8_Witness ==
    /\ last.op = "analyze"
    /\ input_text = <<"s", "I", ".", "s">>
    /\ Keys(word_counts) = {<<"s", "i">>}

(***************************************************************************)
(* Properties of the analysis runs                                         *)
(***************************************************************************)
\* the run of worker w failed: no txt file was loaded, or a step raised
RunFailed(w) == workers[w].outcome \in {"failed", "no_files"}

HasEmitted(w, signal) ==
    \E i \in DOMAIN workers[w].emitted : workers[w].emitted[i].signal = signal

\* the results the window holds
Shown == [word_counts |-> window.word_counts, statistics |-> window.statistics]

\* C9: a run that fails has emitted a status message that says so as its last
\* signal and no analysis_completed, and the window still holds the word_counts
\* and statistics it held when the run was started (those of the last
\* successful run) unless a later run has completed.
C9_FailedRunKeepsResults ==
    \A w \in DOMAIN workers :
        RunFailed(w) =>
            LET emitted == workers[w].emitted
            IN  /\ emitted # <<>>
                /\ emitted[Len(emitted)].signal = "status_updated"
                /\ emitted[Len(emitted)].value \in {"failed", "no_txt_files"}
                /\ ~HasEmitted(w, "analysis_completed")
                /\ (\A v \in DOMAIN workers : v > w => workers[v].outcome # "completed")
                      => Shown = workers[w].at_start

\* the second run failed at the count step, after a first run whose results
\* the window shows
C9_Witness ==
    /\ Len(workers) = 2
    /\ workers[1].outcome = "completed"
    /\ workers[2].outcome = "failed"
    /\ workers[2].pc = "returned"
    /\ workers[2].processed_words # <<>>
    /\ events = <<>>
    /\ window.word_counts = workers[1].word_counter.word_counts
    /\ window.word_counts # <<>>

\* C10: every run ends with the analyze button enabled again: once the
\* workers have returned and their signals are delivered, the button is enabled.
C10_AnalyzeButtonEnabledAgain ==
    (events = <<>> /\ \A w \in DOMAIN workers : workers[w].pc = "returned")
        => window.analyze_button

\* the run of worker w is in progress: run() has not returned
InProgress(w) == workers[w].pc # "returned"

\* C11: at most one WorkerThread run is in progress; start_analysis starts no
\* new worker while an earlier worker's run() has not returned.
C11_OneRunAtATime ==
    Cardinality({w \in DOMAIN workers : InProgress(w)}) <= 1

\* C12: start_analysis with an empty directory field, or with a directory that
\* does not exist, shows the warning and changes nothing else: no worker is
\* created, no signal queued, and the window (buttons, progress bar,
\* word_counts, statistics) is as before.
C12_WarningChangesNothing ==
    [][(/\ last'.op = "start_analysis"
         /\ (last.op # "start_analysis" \/ last'.ret # last.ret)) =>
        LET field == window.directory_input
            empty == field \in {"", "  "}
            missing == ~empty /\ ~(field = "docs" /\ dir_exists)
        IN  /\ empty => last'.ret = "warning_no_directory"
            /\ missing => last'.ret = "warning_directory_missing"
            /\ (empty \/ missing) =>
                  /\ window' = window
                  /\ workers' = workers
                  /\ events' = events]_vars

\* the warning for a missing directory, with the results of a run on display
C12_Witness ==
    /\ last.op = "start_analysis"
    /\ last.ret = "warning_directory_missing"
    /\ window.word_counts # <<>>
    /\ window.analyze_button
    /\ window.progress_bar = 100
    /\ Len(workers) = 1

\* the entries of the directory that a read attempt decoded
ReadOk(files) ==
    SelectSeq(Glob(files), LAMBDA f :
        \/ ReadAttempt(f, "utf-8") = "ok"
        \/ /\ ReadAttempt(f, "utf-8") = "UnicodeDecodeError"
           /\ ReadAttempt(f, FallbackEncoding) = "ok")

\* C13: load_txt_files on an existing directory tries each *.txt file as
\* UTF-8 and, only when that raised a decode error, as GBK; the mapping
\* returned holds exactly the files one of the attempts read, a failing file
\* does not end the load, and loaded_files becomes this mapping.
C13_LoadReadsEachFile ==
    (last.op = "load_txt_files" /\ last.args.exists) =>
        LET files == last.args.files
            attempts == last.ret.attempts
            Tried(name, encoding) ==
                \E k \in DOMAIN attempts :
                    attempts[k][1] = name /\ attempts[k][2] = encoding
        IN  /\ last.ret.raised = None
            /\ \A i \in DOMAIN files :
                  LET f == files[i]
                  IN  /\ Tried(f.name, "utf-8") <=> IsTxt(f.name)
                      /\ Tried(f.name, FallbackEncoding) <=>
                            /\ IsTxt(f.name)
                            /\ ReadAttempt(f, "utf-8") = "UnicodeDecodeError"
            /\ get_file_list(last.ret.ret) = [i \in DOMAIN ReadOk(files) |->
                                                 ReadOk(files)[i].name]
            /\ \A i \in DOMAIN last.ret.ret :
                  last.ret.ret[i][2] = FileText(last.ret.ret[i][1])
            /\ loaded_files = last.ret.ret

\* a load that skipped its first file and read the second one through the
\* fallback encoding
C13_Witness ==
    /\ last.op = "load_txt_files"
    /\ last.args.exists
    /\ Len(last.args.files) = 2
    /\ last.args.files[1].kind \in {"binary", "unreadable"}
    /\ last.args.files[2].kind = "gbk"
    /\ Len(loaded_files) = 1

\* C14: load_txt_files on a directory that does not exist raises
\* FileNotFoundError and leaves loaded_files as it was; get_file_list,
\* get_file_count and get_all_content answer from loaded_files.
C14_MissingDirectoryKeepsLoaded ==
    [][/\ (last'.op = "load_txt_files" /\ ~last'.args.exists) =>
            /\ last'.ret.raised = Some("FileNotFoundError")
            /\ loaded_files' = loaded_files
       /\ (last'.op = "load_txt_files" /\ last'.args.exists) =>
            last'.ret.raised = None
       /\ last'.op = "get_file_list" =>
            last'.ret = get_file_list(loaded_files)
       /\ last'.op = "get_file_count" =>
            last'.ret = Len(loaded_files)
       /\ last'.op = "get_all_content" =>
            last'.ret = get_all_content(loaded_files)]_vars

\* a failed load after a load that read two files
C14_Witness ==
    /\ last.op = "load_txt_files"
    /\ last.ret.raised = Some("FileNotFoundError")
    /\ Len(loaded_files) = 2

\* the file handed over by the export call just made
Written == CHOOSE f \in last.ret.file : TRUE

\* rows holds each of the items once and nothing else
OneRowPerItem(rows, items) ==
    /\ Len(rows) = Len(items)
    /\ Range(rows) = Range(items)

NonIncreasingCounts(rows) ==
    \A i, j \in DOMAIN rows : i < j => rows[i][2] >= rows[j][2]

AscendingWords(rows) ==
    \A i, j \in DOMAIN rows : i < j => StrLess(rows[i][1], rows[j][1])

C15_WitnessTop ==
    /\ last.op = "export_top_words"
    /\ last.args.top_n = 2
    /\ last.ret.ret
    /\ Len(word_counts) = 3
    /\ word_counts[3][2] > word_counts[1][2]
    /\ Len(Written.rows) = 2

ExportOps == {"export_word_frequency", "export_top_words",
              "export_with_statistics", "export_filtered_words"}

\* the number of data rows the export call just made has to write
RowsDue ==
    CASE last.op = "export_top_words" ->
            Len(SlicePrefix(word_counts, last.args.top_n))
      [] last.op = "export_filtered_words" ->
            Cardinality({item \in Range(word_counts) :
                /\ item[2] >= last.args.min_frequency
                /\ Len(item[1]) >= last.args.min_length})
      [] OTHER -> Len(word_counts)

\* the number of writes of the export call just made
WritesDue ==
    RowsDue + (IF last.op = "export_with_statistics" THEN 2 ELSE 1)

\* C16: every export operation returns a boolean and never raises; it returns
\* False and writes no file when word_counts is empty or nothing passes the
\* filter, returns False when writing fails, and returns True only after all
\* rows were written.
C16_ExportReportsOutcome ==
    last.op \in ExportOps =>
        /\ last.ret.raised = None
        /\ last.ret.ret \in BOOLEAN
        /\ RowsDue = 0 => (~last.ret.ret /\ last.ret.file = None)
        /\ last.args.budget < WritesDue => ~last.ret.ret
        /\ last.ret.ret =>
              /\ last.ret.file # None
              /\ Written.header # None
              /\ Len(Written.rows) = RowsDue
              /\ csv_file = last.ret.file

\* a write that failed after the statistics and the header, before the rows
C16_Witness ==
    /\ last.op = "export_with_statistics"
    /\ ~last.ret.ret
    /\ last.ret.file # None
    /\ Len(word_counts) = 3
    /\ Len(Written.rows) = 0
    /\ Written.header # None

\* a is b with some of its elements left out
RECURSIVE IsSubsequence(_, _)
IsSubsequence(a, b) ==
    IF a = <<>> THEN TRUE
    ELSE IF b = <<>> THEN FALSE
    ELSE IF Head(a) = Head(b) THEN IsSubsequence(Tail(a), Tail(b))
    ELSE IsSubsequence(a, Tail(b))

\* C17: filter_by_pos returns the input list unchanged whenever the filter is
\* disabled or no allowed tag is set, and also when tagging raises; in every
\* case the result is a subsequence of the input.
C17_PosFilterPassThrough ==
    last.op = "filter_by_pos" =>
        /\ (\/ ~pos_filter.enabled
            \/ pos_filter.allowed_pos_tags = {}
            \/ last.args.tagging = None) => last.ret = last.args.words
        /\ IsSubsequence(last.ret, last.args.words)

\* the tagger raised on two words while the filter was enabled with a tag
C17_Witness ==
    /\ last.op = "filter_by_pos"
    /\ pos_filter.enabled
    /\ pos_filter.allowed_pos_tags = {"NN"}
    /\ last.args.tagging = None
    /\ Len(last.args.words) = 2
    /\ last.ret = last.args.words

\* the statistics returned for a non-empty table but for avg_frequency:
\* unique_words, max_frequency, min_frequency, total_words, most_common_word
StatisticsOfTable(st) ==
    /\ st.unique_words = Cardinality(Keys(word_counts))
    /\ \E item \in Range(word_counts) : item[2] = st.max_frequency
    /\ \A item \in Range(word_counts) : item[2] <= st.max_frequency
    /\ \E item \in Range(word_counts) : item[2] = st.min_frequency
    /\ \A item \in Range(word_counts) : item[2] >= st.min_frequency
    /\ st.total_words = SumCounts(word_counts)
    /\ \E item \in Range(word_counts) :
          /\ st.most_common_word = Some(item)
          /\ item[2] = st.max_frequency

\* C18 as stated: for a non-empty table unique_words is the number of keys,
\* max_frequency and min_frequency are the largest and smallest counts,
\* avg_frequency times unique_words equals the sum of the counts, total_words
\* equals that sum, and most_common_word is a pair of the table with the
\* count max_frequency.
C18_StatisticsExact ==
    (last.op = "get_statistics" /\ word_counts # <<>>) =>
        /\ StatisticsOfTable(last.ret)
        /\ FloatMulInt(last.ret.avg_frequency, last.ret.unique_words)
              = FloatOfInt(SumCounts(word_counts))

\* C18, amended: the same, with avg_frequency the float quotient of the sum
\* of the counts by unique_words (its product with unique_words is the sum
\* only up to rounding).
C18_StatisticsFloat ==
    (last.op = "get_statistics" /\ word_counts # <<>>) =>
        /\ StatisticsOfTable(last.ret)
        /\ last.ret.avg_frequency
              = FloatDiv(SumCounts(word_counts), last.ret.unique_words)

\* the statistics of seven words counted 29 times, the most frequent one
\* neither first nor last
C18_Witness ==
    /\ last.op = "get_statistics"
    /\ Len(word_counts) = 7
    /\ SumCounts(word_counts) = 29
    /\ word_counts[3][2] = 23
    /\ last.ret.most_common_word = Some(word_counts[3])

\* C19: on a WordCounter that is new or was cleared, count_words([]) returns
\* an empty table (as it does on every counter), get_most_common(n) an empty
\* list, filter_by_frequency, get_words_by_length and to_dict empty mappings,
\* get_statistics zeros and None for most_common_word; process_text('') and
\* remove_stopwords([]) return empty lists.
C19_EmptyInEmptyOut ==
    /\ (last.op = "count_words" /\ last.args.words = <<>>) => last.ret = <<>>
    /\ (last.op = "process_text" /\ input_text = <<>>) => last.ret = <<>>
    /\ (last.op = "remove_stopwords" /\ last.args.tokens = <<>>) => last.ret = <<>>
    /\ Self = NewCounter =>
          /\ last.op \in {"get_most_common", "filter_by_frequency",
                          "get_words_by_length", "to_dict"} => last.ret = <<>>
          /\ last.op = "get_statistics" =>
                last.ret = [total_words |-> 0, unique_words |-> 0,
                            avg_frequency |-> FloatZero,
                            max_frequency |-> 0, min_frequency |-> 0,
                            most_common_word |-> None]
          /\ last.op = "clear" => last.ret = <<>>

\* the statistics of a counter without words
C19_Witness ==
    /\ last.op = "get_statistics"
    /\ Self = NewCounter
    /\ last.ret.most_common_word = None

\* C20: when a run completes, MainWindow.word_counts and statistics become
\* the frequency table and the statistics of the words of that run's files
\* alone, whatever earlier runs left.
C20_ResultsOfThisRunOnly ==
    [][(/\ events # <<>>
        /\ Head(events).signal = "analysis_completed"
        /\ events' = Tail(events)) =>
          LET run == workers[Head(events).sender]
              table == CounterOf(run.processed_words)
          IN  /\ run.processed_words \in
                    process_text(EnglishStopwords, get_all_content(run.files))
              /\ window'.word_counts = table
              /\ window'.statistics =
                    [stats |-> get_statistics([word_counts |-> table,
                                               total_words |-> Len(run.processed_words)]),
                     file_count |-> Len(run.files)]]_vars

\* the results of a second run on display, without a word of the first run
C20_Witness ==
    /\ Len(workers) = 2
    /\ events = <<>>
    /\ workers[1].outcome = "completed"
    /\ workers[2].outcome = "completed"
    /\ window.word_counts = CounterOf(workers[2].processed_words)
    /\ window.word_counts # <<>>
    /\ Keys(CounterOf(workers[1].processed_words)) \ Keys(window.word_counts) # {}

\* the signals of a run that completes, but for the results, in the order of
\* the statements of run()
LinearRun ==
    <<Status("loading"), Progress(10), Progress(30), Status("processing"),
      Progress(60), Status("counting"), Progress(80), Progress(100),
      Status("done")>>

\* signal e is the signal s of LinearRun
IsSignal(e, s) == e.signal = s.signal /\ e.value = s.value

\* C21: a run emits the progress values 10, 30, 60, 80, 100 in this order,
\* each after the status message of its step (load, process, count, in this
\* order) and right after the signal before it; 100 and the status "done"
\* are emitted only in a run that then emits analysis_completed exactly once,
\* and analysis_completed is emitted only after progress 100.
C21_LinearControlFlow ==
    \A w \in DOMAIN workers :
        LET em == workers[w].emitted
            last_step == Len(LinearRun)
            IsAt(i, k) == i \in DOMAIN em /\ IsSignal(em[i], LinearRun[k])
            InRun(i) == \E k \in DOMAIN LinearRun : IsSignal(em[i], LinearRun[k])
            HasResults == IsAt(last_step, last_step) /\ Len(em) = last_step + 1
                             /\ em[last_step + 1].signal = "analysis_completed"
        IN  /\ \A i \in DOMAIN em :
                  /\ em[i].signal = "progress_updated" => InRun(i)
                  /\ InRun(i) => (IsAt(i, i) /\ (i > 1 => InRun(i - 1)))
                  /\ em[i].signal = "analysis_completed" =>
                        (i = last_step + 1 /\ IsAt(i - 1, i - 1))
            /\ (IsAt(last_step - 1, last_step - 1) \/ workers[w].outcome = "completed")
                  => (HasResults /\ workers[w].outcome = "completed")

\* a run that has gone through all its steps and returned
C21_Witness ==
    \E w \in DOMAIN workers :
        /\ workers[w].pc = "returned"
        /\ Len(workers[w].emitted) = 10
        /\ workers[w].emitted[8].value = 100
        /\ workers[w].emitted[10].signal = "analysis_completed"

\* C22: the export, chart and word-cloud buttons are disabled in the initial
\* state, a step enables one of them only by delivering analysis_completed to
\* on_analysis_completed, whenever one of them is enabled some run has emitted
\* analysis_completed, and a click on one of them while word_counts is empty
\* shows the warning, writes no file and shows no figure.
ClickOps == {"export_csv", "show_plots", "show_wordcloud"}

ResultButtons == {"export_button", "plot_button", "wordcloud_button"}

DeliversCompleted ==
    /\ events # <<>>
    /\ Head(events).signal = "analysis_completed"
    /\ events' = Tail(events)

IsClick ==
    /\ last'.op \in ClickOps
    /\ (last.op # last'.op \/ last'.ret # last.ret \/ csv_file' # csv_file)

C22_ButtonsAfterCounting ==
    /\ \A b \in ResultButtons : ~window[b]
    /\ [](\A b \in ResultButtons :
            window[b] => \E w \in DOMAIN workers : HasEmitted(w, "analysis_completed"))
    /\ [][/\ \A b \in ResultButtons : (~window[b] /\ window'[b]) => DeliversCompleted
          /\ (IsClick /\ window.word_counts = <<>>) =>
                /\ last'.ret = WarningNoData
                /\ csv_file' = csv_file
                /\ window' = window]_vars

\* a run that found no word has enabled the buttons, and the click on the
\* export button was answered by the warning
C22_Witness ==
    /\ last.op = "export_csv"
    /\ last.ret.dialog = "warning_no_data"
    /\ window.export_button
    /\ window.word_counts = <<>>
    /\ csv_file = None
    /\ \E w \in DOMAIN workers : workers[w].outcome = "completed"

\* C23: in every state a WordCounter reaches by count_words, merge_counts
\* (with another counter reached the same way, or with itself) and clear,
\* total_words is the sum of the counts in the table and every stored count
\* is an integer >= 1.
Consistent(counter) ==
    /\ counter.total_words = SumCounts(counter.word_counts)
    /\ \A i \in DOMAIN counter.word_counts :
          counter.word_counts[i][2] \in Nat \ {0}

C23_TotalIsSumOfCounts ==
    \A object \in CounterObjects : Consistent(Fields(object))

\* a merge has left a with two words, one of them counted three times, while
\* b holds two words
C23_Witness ==
    /\ last.op = "merge_counts"
    /\ Len(word_counts) = 2
    /\ \E i \in DOMAIN word_counts : word_counts[i][2] = 3
    /\ Len(counter_b.word_counts) = 2
    /\ counter_b.total_words = 2
    /\ total_words = 4

\* C24: after every on_analysis_completed the result table shows the first
\* min(100, number of words) entries of the new word_counts in the order of
\* descending counts, ranked 1..k in the first column; no row of an earlier
\* run stays on display when the new run found fewer words or none.
ShowsTable(result_table, counts) ==
    /\ Len(result_table) = Min(Len(counts), MaxRows)
    /\ \A i \in DOMAIN result_table :
          /\ result_table[i][1] = i
          /\ <<result_table[i][2], result_table[i][3]>> \in Range(counts)
    /\ \A i, j \in DOMAIN result_table :
          i < j => /\ result_table[i][3] >= result_table[j][3]
                   /\ result_table[i][2] # result_table[j][2]
    /\ \A x \in Range(counts) :
          (\A i \in DOMAIN result_table : result_table[i][2] # x[1]) =>
              \A i \in DOMAIN result_table : result_table[i][3] >= x[2]

C24_TableShowsNewRun ==
    [][DeliversCompleted => ShowsTable(window'.result_table, window'.word_counts)]_vars

\* C25: after any sequence of POSFilter construction, enable_filter,
\* disable_filter and set_allowed_pos_tags, filter_by_pos drops words only if
\* the filter is enabled and the allowed-tag set is not empty; disable_filter
\* empties the allowed-tag set, which then stays empty, an enable_filter()
\* without tags included, until tags are set again, so that every word passes;
\* and a set returned earlier by get_allowed_pos_tags is not changed by later
\* operations.
PosCall(op) ==
    /\ last'.op = op
    /\ (last.op # op \/ last'.args # last.args \/ last'.ret # last.ret
          \/ pos_filter' # pos_filter \/ returned_tags' # returned_tags)

SetsTags ==
    \/ PosCall("set_allowed_pos_tags") /\ last'.args.pos_tags # {}
    \/ /\ PosCall("enable_filter")
       /\ last'.args.pos_tags \notin {None, Some({})}

C25_PosFilterState ==
    /\ [](\A i \in DOMAIN returned_tags :
            returned_tags[i].value = returned_tags[i].at_return)
    /\ [][/\ (PosCall("filter_by_pos") /\ last'.ret # last'.args.words) =>
                (pos_filter.enabled /\ pos_filter.allowed_pos_tags # {})
          /\ PosCall("disable_filter") =>
                (~pos_filter'.enabled /\ pos_filter'.allowed_pos_tags = {})
          /\ (pos_filter.allowed_pos_tags = {} /\ ~SetsTags) =>
                pos_filter'.allowed_pos_tags = {}
          /\ (PosCall("enable_filter") /\ last'.args.pos_tags = None) =>
                (pos_filter'.enabled
                 /\ pos_filter'.allowed_pos_tags = pos_filter.allowed_pos_tags)]_vars

\* the caller holds a set of tags returned earlier; the filter, enabled, has
\* no tag left and has passed on a word that no allowed tag would have kept
C25_Witness ==
    /\ last.op = "filter_by_pos"
    /\ pos_filter.enabled
    /\ pos_filter.allowed_pos_tags = {}
    /\ last.args.words # <<>>
    /\ last.args.tagging # None
    /\ \A tags \in last.args.tagging : \A i \in DOMAIN tags : tags[i] = "JJ"
    /\ last.ret = last.args.words
    /\ \E i \in DOMAIN returned_tags : returned_tags[i].value = {"NN"}

\* C26: for every non-empty WordCounter state reached by count_words,
\* merge_counts and clear, get_export_summary(counter.to_dict()) reports the
\* unique-word count, the total word count, the maximum and the minimum
\* frequency and the most common (word, count) pair, ties included, that
\* counter.get_statistics() reports.
C26_SummariesAgree ==
    (last.op = "get_export_summary" /\ word_counts # <<>>) =>
        LET summary == last.ret.summary
            statistics == last.ret.statistics
        IN  /\ summary.total_unique_words = statistics.unique_words
            /\ summary.total_word_count = statistics.total_words
            /\ summary.max_frequency = statistics.max_frequency
            /\ summary.min_frequency = statistics.min_frequency
            /\ Some(summary.most_common_word) = statistics.most_common_word

\* a table built by a merge in which the largest count is shared and its
\* first holder is not the first word
C26_Witness ==
    /\ last.op = "get_export_summary"
    /\ Len(word_counts) = 3
    /\ word_counts[1][2] = 1 /\ word_counts[2][2] = 2 /\ word_counts[3][2] = 2
    /\ last.ret.summary.most_common_word = word_counts[2]
    /\ last.ret.summary.total_word_count = 5

====
